---- MODULE Spec2Model ----
(***************************************************************************)
(* Streaming multi-provider generation gateway of M10C-Video-Summary:      *)
(* the background script's AI_STREAM port handler, BackgroundAIService     *)
(* .streamAI with its line decoder, and the provider adapters; the side    *)
(* panel components that consume the stream, SummaryDisplay and            *)
(* MindmapDisplay; and the background script's capture of the subtitle     *)
(* URL.                                                                    *)
(*                                                                         *)
(* Text that the code looks into (response bodies, lines, JSON) is a       *)
(* sequence of characters, each a one-character string; the two non-ASCII  *)
(* characters of the alphabet are named by their code point.  Text that    *)
(* the code only passes on or concatenates (keys, model names, URLs,       *)
(* prompts) is a string.  Bytes are integers 0..255.  JSON values are      *)
(* tagged records.                                                         *)
(*                                                                         *)
(* Scheduling: JavaScript runs every listener and every continuation of an *)
(* await to completion, so one action of the model is one event-loop job:  *)
(* a listener call, or the settlement of an awaited promise together with  *)
(* the code that runs up to the next await.                                *)
(***************************************************************************)
EXTENDS Integers, Sequences, FiniteSets, TLC

(***************************************************************************)
(* Characters and UTF-8                                                    *)
(***************************************************************************)

\* The printable ASCII characters in code order, starting at code 32 (the grave
\* accent, which a TLA+ string cannot hold, is named by its code point).
AsciiPrintable ==
    << " ", "!", "\"", "#", "$", "%", "&", "'", "(", ")", "*", "+", ",", "-",
       ".", "/", "0", "1", "2", "3", "4", "5", "6", "7", "8", "9", ":", ";",
       "<", "=", ">", "?", "@", "A", "B", "C", "D", "E", "F", "G", "H", "I",
       "J", "K", "L", "M", "N", "O", "P", "Q", "R", "S", "T", "U", "V", "W",
       "X", "Y", "Z", "[", "\\", "]", "^", "_", "U+0060", "a", "b", "c", "d", "e",
       "f", "g", "h", "i", "j", "k", "l", "m", "n", "o", "p", "q", "r", "s",
       "t", "u", "v", "w", "x", "y", "z", "{", "|", "}", "~" >>

\* The characters of a string.
Chars(s) == [i \in 1..Len(s) |-> SubSeq(s, i, i)]

LF == "\n"
CR == "\r"
TAB == "\t"
\* U+00E9 (two UTF-8 bytes) and U+4E2D (three UTF-8 bytes).
EAcute == "U+00E9"
Zhong == "U+4E2D"
\* U+FFFD, what TextDecoder emits for a malformed sequence.
Replacement == "U+FFFD"

\* The character of each printable ASCII code.
AsciiChar ==
    [i \in 32..126 |-> AsciiPrintable[i - 31]]

CharOfCode(cp) ==
    IF cp \in 32..126 THEN AsciiChar[cp]
    ELSE IF cp = 10 THEN LF
    ELSE IF cp = 13 THEN CR
    ELSE IF cp = 9 THEN TAB
    ELSE IF cp = 233 THEN EAcute
    ELSE IF cp = 20013 THEN Zhong
    ELSE Replacement

CodeOfChar(c) ==
    IF c = LF THEN 10
    ELSE IF c = CR THEN 13
    ELSE IF c = TAB THEN 9
    ELSE IF c = EAcute THEN 233
    ELSE IF c = Zhong THEN 20013
    ELSE IF c = Replacement THEN 65533
    ELSE CHOOSE i \in 32..126 : AsciiChar[i] = c

\* UTF-8 bytes of one code point below 2^16.
Utf8OfCode(cp) ==
    IF cp < 128 THEN << cp >>
    ELSE IF cp < 2048 THEN << 192 + (cp \div 64), 128 + (cp % 64) >>
    ELSE << 224 + (cp \div 4096), 128 + ((cp \div 64) % 64), 128 + (cp % 64) >>

\* The bytes an upstream server sends for a text: up to three bytes per character,
\* in order.
Utf8Encode(text) ==
    LET Slot(j) == LET unit == Utf8OfCode(CodeOfChar(text[((j - 1) \div 3) + 1]))
                       k == ((j - 1) % 3) + 1
                   IN  IF k <= Len(unit) THEN unit[k] ELSE -1
        IsByte(b) == b >= 0
    IN  SelectSeq([j \in 1..(3 * Len(text)) |-> Slot(j)], IsByte)

IsContinuation(b) == b \in 128..191

\* Number of bytes of the sequence a lead byte opens; 0 for a byte that opens none.
SequenceLength(b) ==
    IF b < 128 THEN 1
    ELSE IF b \in 194..223 THEN 2
    ELSE IF b \in 224..239 THEN 3
    ELSE 0

\* The bytes from position i up to the end of the sequence its lead byte opens, or
\* up to the end of the input, are all continuation bytes.
WellContinued(bytes, i) ==
    \A k \in (i + 1)..(i + SequenceLength(bytes[i]) - 1) :
        k <= Len(bytes) => IsContinuation(bytes[k])

\* Position i is a continuation byte that belongs to the sequence opened at j.
ConsumedBy(bytes, i, j) ==
    /\ j < i
    /\ SequenceLength(bytes[j]) > i - j
    /\ WellContinued(bytes, j)

Consumed(bytes, i) ==
    IsContinuation(bytes[i]) /\ \E j \in {i - 2, i - 1} : j >= 1 /\ ConsumedBy(bytes, i, j)

\* A sequence opens at i and the input ends before it is complete.
Truncated(bytes, i) ==
    /\ ~Consumed(bytes, i)
    /\ i + SequenceLength(bytes[i]) - 1 > Len(bytes)
    /\ WellContinued(bytes, i)

\* The character decoded at a position that opens a unit.
DecodedAt(bytes, i) ==
    LET b == bytes[i]
        n == SequenceLength(b)
    IN  IF n = 0 \/ ~WellContinued(bytes, i) \/ i + n - 1 > Len(bytes) THEN Replacement
        ELSE IF n = 1 THEN CharOfCode(b)
        ELSE IF n = 2 THEN CharOfCode((b - 192) * 64 + (bytes[i + 1] - 128))
        ELSE CharOfCode((b - 224) * 4096 + (bytes[i + 1] - 128) * 64
                        + (bytes[i + 2] - 128))

\* TextDecoder.decode(bytes, { stream }): the decoded text and the bytes of an
\* incomplete trailing sequence, which a streaming decoder keeps for the next
\* call and a non-streaming one replaces by U+FFFD.  A sequence has at most three
\* bytes, so an incomplete one opens at one of the last two.
Utf8Decode(bytes, stream) ==
    LET N == Len(bytes)
        Index == [i \in 1..N |-> i]
        open == {i \in {N - 1, N} : i >= 1 /\ Truncated(bytes, i)}
        cut == IF stream /\ open # {} THEN CHOOSE i \in open : TRUE ELSE N + 1
        Opens(i) == i < cut /\ ~Consumed(bytes, i)
        units == SelectSeq(Index, Opens)
    IN  [text |-> [k \in 1..Len(units) |-> DecodedAt(bytes, units[k])],
         pending |-> SubSeq(bytes, cut, N)]

\* A decoder that is made anew for every read and so forgets the bytes of a
\* character that the read has cut.
DecodeAlone(pending, value) ==
    Utf8Decode(value, FALSE)

\* decoder.decode(value, { stream: true }) on a decoder that holds `pending`.
TextDecoder_decode(pending, value) ==
    Utf8Decode(pending \o value, TRUE)

(***************************************************************************)
(* String operations of the decode loop                                    *)
(***************************************************************************)

WhiteSpace == {" ", LF, CR, TAB}

\* String.prototype.trim
trim(s) ==
    LET Solid(i) == s[i] \notin WhiteSpace
        first == CHOOSE i \in 1..Len(s) : Solid(i) /\ \A j \in 1..(i - 1) : ~Solid(j)
        back == CHOOSE d \in 0..(Len(s) - 1) :
                    Solid(Len(s) - d) /\ \A e \in 0..(d - 1) : ~Solid(Len(s) - e)
    IN  IF \A i \in 1..Len(s) : ~Solid(i) THEN << >>
        ELSE SubSeq(s, first, Len(s) - back)

\* String.prototype.startsWith
startsWith(s, prefix) ==
    Len(s) >= Len(prefix) /\ SubSeq(s, 1, Len(prefix)) = prefix

\* String.prototype.slice(n)
slice(s, n) == SubSeq(s, n + 1, Len(s))

\* buffer.split("\n"): never empty, the last element is what follows the last newline.
split(s) ==
    LET newlines == {i \in 1..Len(s) : s[i] = LF}
        n == Cardinality(newlines)
        Nth(k) == IF k = 0 THEN 0
                  ELSE IF k = n + 1 THEN Len(s) + 1
                  ELSE CHOOSE p \in newlines : Cardinality({q \in newlines : q <= p}) = k
    IN  [k \in 1..(n + 1) |-> SubSeq(s, Nth(k - 1) + 1, Nth(k) - 1)]

DataPrefix == Chars("data: ")
DoneSentinel == Chars("[DONE]")

(***************************************************************************)
(* JSON values and JSON.parse                                              *)
(*                                                                         *)
(* The grammar of RFC 8259 without \u escapes, \b, \f and exponents, which *)
(* no text of the model uses.                                              *)
(***************************************************************************)

Undefined == [t |-> "undefined"]
JNull == [t |-> "null"]
JBool(b) == [t |-> "boolean", v |-> b]
JNum(lexeme) == [t |-> "number", v |-> lexeme]
JStr(s) == [t |-> "string", v |-> s]
JArr(elems) == [t |-> "array", v |-> elems]
JObj(members) == [t |-> "object", v |-> members]

EmptyMembers == [k \in {} |-> JNull]

Digits == {"0", "1", "2", "3", "4", "5", "6", "7", "8", "9"}

ParseFail == [ok |-> FALSE]
ParseOk(val, next) == [ok |-> TRUE, val |-> val, next |-> next]

RECURSIVE SkipWs(_, _)
SkipWs(t, i) ==
    IF i <= Len(t) /\ t[i] \in WhiteSpace THEN SkipWs(t, i + 1) ELSE i

CharAt(t, i) == IF i \in 1..Len(t) THEN t[i] ELSE "EOF"

RECURSIVE ParseString(_, _, _)
\* The characters of a string literal whose opening quote precedes position i.
ParseString(t, i, acc) ==
    LET c == CharAt(t, i)
        e == CharAt(t, i + 1)
    IN  IF c = "EOF" \/ c \in {LF, CR, TAB} THEN ParseFail
        ELSE IF c = "\"" THEN ParseOk(acc, i + 1)
        ELSE IF c = "\\"
             THEN IF e \in {"\"", "\\", "/"} THEN ParseString(t, i + 2, Append(acc, e))
                  ELSE IF e = "n" THEN ParseString(t, i + 2, Append(acc, LF))
                  ELSE IF e = "r" THEN ParseString(t, i + 2, Append(acc, CR))
                  ELSE IF e = "t" THEN ParseString(t, i + 2, Append(acc, TAB))
                  ELSE ParseFail
        ELSE ParseString(t, i + 1, Append(acc, c))

RECURSIVE SkipDigits(_, _)
SkipDigits(t, i) ==
    IF CharAt(t, i) \in Digits THEN SkipDigits(t, i + 1) ELSE i

\* A number literal starting at position i: -? (0 | [1-9][0-9]*) (. [0-9]+)?
ParseNumber(t, i) ==
    LET s == IF CharAt(t, i) = "-" THEN i + 1 ELSE i
        intEnd == IF CharAt(t, s) = "0" THEN s + 1 ELSE SkipDigits(t, s)
        fracEnd == IF CharAt(t, intEnd) = "." THEN SkipDigits(t, intEnd + 1) ELSE intEnd
    IN  IF intEnd = s THEN ParseFail
        ELSE IF CharAt(t, intEnd) = "." /\ fracEnd = intEnd + 1 THEN ParseFail
        ELSE ParseOk(JNum(SubSeq(t, i, fracEnd - 1)), fracEnd)

ParseLiteral(t, i, word, val) ==
    IF startsWith(slice(t, i - 1), word) THEN ParseOk(val, i + Len(word)) ELSE ParseFail

RECURSIVE ParseValue(_, _)
RECURSIVE ParseMembers(_, _, _)
RECURSIVE ParseElements(_, _, _)

ParseValue(t, i) ==
    LET j == SkipWs(t, i)
        c == CharAt(t, j)
    IN  IF c = "{"
        THEN IF CharAt(t, SkipWs(t, j + 1)) = "}"
             THEN ParseOk(JObj(EmptyMembers), SkipWs(t, j + 1) + 1)
             ELSE ParseMembers(t, j + 1, EmptyMembers)
        ELSE IF c = "["
        THEN IF CharAt(t, SkipWs(t, j + 1)) = "]"
             THEN ParseOk(JArr(<< >>), SkipWs(t, j + 1) + 1)
             ELSE ParseElements(t, j + 1, << >>)
        ELSE IF c = "\""
        THEN LET s == ParseString(t, j + 1, << >>)
             IN  IF s.ok THEN ParseOk(JStr(s.val), s.next) ELSE ParseFail
        ELSE IF c = "t" THEN ParseLiteral(t, j, Chars("true"), JBool(TRUE))
        ELSE IF c = "f" THEN ParseLiteral(t, j, Chars("false"), JBool(FALSE))
        ELSE IF c = "n" THEN ParseLiteral(t, j, Chars("null"), JNull)
        ELSE IF c = "-" \/ c \in Digits THEN ParseNumber(t, j)
        ELSE ParseFail

\* The members of an object after its opening brace or a comma; a repeated key
\* keeps its last value.
ParseMembers(t, i, acc) ==
    LET j == SkipWs(t, i)
        key == IF CharAt(t, j) = "\"" THEN ParseString(t, j + 1, << >>) ELSE ParseFail
        k == IF key.ok THEN SkipWs(t, key.next) ELSE 0
        val == IF key.ok /\ CharAt(t, k) = ":" THEN ParseValue(t, k + 1) ELSE ParseFail
        m == IF val.ok THEN SkipWs(t, val.next) ELSE 0
        more == [n \in (DOMAIN acc) \cup {key.val} |->
                    IF n = key.val THEN val.val ELSE acc[n]]
    IN  IF ~val.ok THEN ParseFail
        ELSE IF CharAt(t, m) = "," THEN ParseMembers(t, m + 1, more)
        ELSE IF CharAt(t, m) = "}" THEN ParseOk(JObj(more), m + 1)
        ELSE ParseFail

ParseElements(t, i, acc) ==
    LET val == ParseValue(t, i)
        m == IF val.ok THEN SkipWs(t, val.next) ELSE 0
    IN  IF ~val.ok THEN ParseFail
        ELSE IF CharAt(t, m) = "," THEN ParseElements(t, m + 1, Append(acc, val.val))
        ELSE IF CharAt(t, m) = "]" THEN ParseOk(JArr(Append(acc, val.val)), m + 1)
        ELSE ParseFail

\* JSON.parse(text): [ok |-> TRUE, val |-> value], or [ok |-> FALSE] where
\* JSON.parse throws SyntaxError.
JSON_parse(text) ==
    LET r == ParseValue(text, 1)
    IN  IF r.ok /\ SkipWs(text, r.next) > Len(text)
        THEN [ok |-> TRUE, val |-> r.val]
        ELSE [ok |-> FALSE]

(***************************************************************************)
(* JavaScript property access and truthiness on JSON values                *)
(***************************************************************************)

\* x?.[k] for a property name k of a parsed JSON value.
GetProp(x, k) ==
    IF x.t = "object" /\ Chars(k) \in DOMAIN x.v THEN x.v[Chars(k)] ELSE Undefined

\* x?.[0]
GetFirst(x) ==
    IF x.t = "array" /\ Len(x.v) >= 1 THEN x.v[1]
    ELSE IF x.t = "string" /\ Len(x.v) >= 1 THEN JStr(<< x.v[1] >>)
    ELSE Undefined

Truthy(x) ==
    IF x.t \in {"undefined", "null"} THEN FALSE
    ELSE IF x.t = "boolean" THEN x.v
    ELSE IF x.t = "string" THEN x.v # << >>
    ELSE IF x.t = "number" THEN \E i \in 1..Len(x.v) : x.v[i] \in Digits \ {"0"}
    ELSE TRUE

\* a || b
OrElse(a, b) == IF Truthy(a) THEN a ELSE b


(***************************************************************************)
(* Provider adapters: parseStreamChunk                                     *)
(***************************************************************************)

\* x?.[0] where x may also be an object that has a member named "0".
GetIndex0(x) ==
    IF x.t = "object" THEN GetProp(x, "0") ELSE GetFirst(x)

\* StreamChunk { content, reasoning }
StreamChunk(content, reasoning) == [content |-> content, reasoning |-> reasoning]

OpenAIProvider_parseStreamChunk(chunk) ==
    LET delta == GetProp(GetIndex0(GetProp(chunk, "choices")), "delta")
    IN  StreamChunk(
            OrElse(GetProp(delta, "content"), JNull),
            OrElse(GetProp(delta, "reasoning_content"),
                   OrElse(GetProp(delta, "reasoning"), JNull)))

GeminiProvider_parseStreamChunk(chunk) ==
    LET content == GetProp(GetIndex0(GetProp(chunk, "candidates")), "content")
        part == GetIndex0(GetProp(content, "parts"))
    IN  StreamChunk(OrElse(GetProp(part, "text"), JNull), JNull)

\* A Claude adapter that reads the delta of an event of any type.
ClaudeAnyType(chunk) ==
    StreamChunk(OrElse(GetProp(GetProp(chunk, "delta"), "text"), JNull), JNull)

ClaudeProvider_parseStreamChunk(chunk) ==
    IF GetProp(chunk, "type") = JStr(Chars("content_block_delta"))
    THEN StreamChunk(OrElse(GetProp(GetProp(chunk, "delta"), "text"), JNull), JNull)
    ELSE StreamChunk(JNull, JNull)

\* The adapter classes.
Adapters == {"OpenAIProvider", "GeminiProvider", "ClaudeProvider"}

parseStreamChunk(adapter, chunk) ==
    IF adapter = "OpenAIProvider" THEN OpenAIProvider_parseStreamChunk(chunk)
    ELSE IF adapter = "GeminiProvider" THEN GeminiProvider_parseStreamChunk(chunk)
    ELSE ClaudeProvider_parseStreamChunk(chunk)

(***************************************************************************)
(* Provider adapters: extractContent                                       *)
(***************************************************************************)

\* A TypeError thrown where a value was expected.
TypeError == [t |-> "TypeError"]

Nullish(x) == x.t \in {"undefined", "null"}

\* x.k and x[0] without `?`: reading a property of undefined or of null throws.
Member(x, k) == IF x = TypeError \/ Nullish(x) THEN TypeError ELSE GetProp(x, k)
Index0(x) == IF x = TypeError \/ Nullish(x) THEN TypeError ELSE GetIndex0(x)

\* x || "" where evaluating x may have thrown.
OrEmpty(x) == IF x = TypeError THEN TypeError ELSE OrElse(x, JStr(<< >>))

\* response.choices[0]?.message?.content || ""
OpenAIProvider_extractContent(response) ==
    LET choice == Index0(Member(response, "choices"))
    IN  IF choice = TypeError THEN TypeError
        ELSE OrEmpty(GetProp(GetProp(choice, "message"), "content"))

\* response.candidates[0]?.content?.parts[0]?.text || "": a `?.` that finds
\* undefined or null ends the whole chain with undefined.
GeminiProvider_extractContent(response) ==
    LET candidate == Index0(Member(response, "candidates"))
        content == GetProp(candidate, "content")
        part == Index0(GetProp(content, "parts"))
    IN  IF candidate = TypeError THEN TypeError
        ELSE IF Nullish(candidate) \/ Nullish(content) THEN JStr(<< >>)
        ELSE OrEmpty(IF part = TypeError THEN TypeError ELSE GetProp(part, "text"))

\* response.content[0]?.text || ""
ClaudeProvider_extractContent(response) ==
    LET block == Index0(Member(response, "content"))
    IN  IF block = TypeError THEN TypeError ELSE OrEmpty(GetProp(block, "text"))

extractContent(adapter, response) ==
    IF adapter = "OpenAIProvider" THEN OpenAIProvider_extractContent(response)
    ELSE IF adapter = "GeminiProvider" THEN GeminiProvider_extractContent(response)
    ELSE ClaudeProvider_extractContent(response)

(***************************************************************************)
(* The decode loop of streamAI                                             *)
(***************************************************************************)

\* A loop that hands every delta on.
EmitsAlways(chunkData) == TRUE

\* `if (chunkData.content || chunkData.reasoning)`
Emits(chunkData) == Truthy(chunkData.content) \/ Truthy(chunkData.reasoning)

\* The body of `for (const line of lines)`: the chunks handed to onChunk for one
\* complete line, none or one.
\* A filter that takes "data:" for the prefix, with or without the space.
ProcessLineAnyData(adapter, line) ==
    LET trimmedLine == trim(line)
        dataStr == trim(slice(trimmedLine, Len(Chars("data:"))))
        data == JSON_parse(dataStr)
        chunkData == parseStreamChunk(adapter, data.val)
    IN  IF trimmedLine = << >> THEN << >>
        ELSE IF ~startsWith(trimmedLine, Chars("data:")) THEN << >>
        ELSE IF dataStr = DoneSentinel THEN << >>
        ELSE IF ~data.ok THEN << >>
        ELSE IF Emits(chunkData) THEN << chunkData >>
        ELSE << >>

ProcessLine(adapter, line) ==
    LET trimmedLine == trim(line)
        dataStr == slice(trimmedLine, Len(DataPrefix))
        data == JSON_parse(dataStr)
        chunkData == parseStreamChunk(adapter, data.val)
    IN  IF trimmedLine = << >> THEN << >>
        ELSE IF ~startsWith(trimmedLine, DataPrefix) THEN << >>
        ELSE IF dataStr = DoneSentinel THEN << >>
        ELSE IF ~data.ok THEN << >>
        ELSE IF Emits(chunkData) THEN << chunkData >>
        ELSE << >>

RECURSIVE ProcessUntilInvalid(_, _)
\* A loop that a payload which is no JSON ends: the lines after it are dropped.
ProcessUntilInvalid(adapter, lines) ==
    IF lines = << >> THEN << >>
    ELSE LET trimmedLine == trim(Head(lines))
             dataStr == slice(trimmedLine, Len(DataPrefix))
         IN  IF /\ startsWith(trimmedLine, DataPrefix)
                /\ dataStr # DoneSentinel
                /\ ~JSON_parse(dataStr).ok
             THEN << >>
             ELSE ProcessLine(adapter, Head(lines))
                  \o ProcessUntilInvalid(adapter, Tail(lines))

RECURSIVE ProcessUntilDone(_, _)
\* A loop that the sentinel ends: the lines after it are dropped.
ProcessUntilDone(adapter, lines) ==
    IF lines = << >> THEN << >>
    ELSE LET trimmedLine == trim(Head(lines))
         IN  IF /\ startsWith(trimmedLine, DataPrefix)
                /\ slice(trimmedLine, Len(DataPrefix)) = DoneSentinel
             THEN << >>
             ELSE ProcessLine(adapter, Head(lines))
                  \o ProcessUntilDone(adapter, Tail(lines))

RECURSIVE ProcessLines(_, _)
ProcessLines(adapter, lines) ==
    IF lines = << >> THEN << >>
    ELSE ProcessLine(adapter, Head(lines)) \o ProcessLines(adapter, Tail(lines))

\* The state of one read loop: the residual buffer and the decoder's pending bytes.
NewDecoder == [buffer |-> << >>, pending |-> << >>]

\* One iteration of `while (true)` on a value read from the body: the new loop
\* state and the chunks handed to onChunk, in order.
DecodeRead(adapter, st, value) ==
    LET decoded == TextDecoder_decode(st.pending, value)
        buffer == st.buffer \o decoded.text
        lines == split(buffer)
    IN  [buffer |-> lines[Len(lines)],
         pending |-> decoded.pending,
         chunks |-> ProcessLines(adapter, SubSeq(lines, 1, Len(lines) - 1))]


(***************************************************************************)
(* Configuration                                                           *)
(***************************************************************************)

\* A field that is not there (undefined).
NoValue == "U+0000"
\* What a plain object yields for a name it inherits from Object.prototype.
InheritedMember == "U+0001"
\* getConfig() returning null.
NoConfig == [provider |-> "null"]
\* getConfig() not yet settled.
Unread == [provider |-> "unread"]

ObjectPrototypeMembers == {"constructor", "toString", "hasOwnProperty"}

\* A non-empty string, or an inherited function: what `!x` is false for.
TruthyText(x) == x # NoValue /\ x # ""

AIConfig(provider, apiKeys, model, customModel, baseUrl) ==
    [provider |-> provider, apiKeys |-> apiKeys, model |-> model,
     customModel |-> customModel, baseUrl |-> baseUrl]

\* The values storage may hold under "aiConfig".
Configs ==
    { NoConfig,
      AIConfig("openai", [p \in {"openai"} |-> "k"], "gpt-x", NoValue, NoValue),
      AIConfig("openai", [p \in {"openai"} |-> ""], "gpt-x", NoValue, NoValue),
      AIConfig("gemini", [p \in {"openai"} |-> "k"], "gemini-pro", NoValue, NoValue),
      AIConfig("claude", [p \in {"claude"} |-> "k"], "claude-3", "", NoValue),
      AIConfig("mistral", [p \in {"mistral"} |-> "k"], "gpt-x", NoValue, NoValue),
      AIConfig("mistral", [p \in {"openai"} |-> "k"], "gpt-x", NoValue, NoValue),
      AIConfig("constructor", [p \in {"openai"} |-> "k"], "gpt-x", NoValue, NoValue) }

\* config?.apiKeys?.[config.provider]
ApiKeyOf(config) ==
    IF config = NoConfig THEN NoValue
    ELSE IF config.provider \in DOMAIN config.apiKeys THEN config.apiKeys[config.provider]
    ELSE IF config.provider \in ObjectPrototypeMembers THEN InheritedMember
    ELSE NoValue

\* A check of the configuration alone, not of the key.
OnlyAbsent(config, apiKey) ==
    config = NoConfig

\* !config || !apiKey
NotConfigured(config, apiKey) ==
    config = NoConfig \/ ~TruthyText(apiKey)

\* BackgroundAIService.providers
providers ==
    [id \in {"openai", "openai-compatible", "gemini", "claude", "openrouter"} |->
        IF id = "gemini" THEN "GeminiProvider"
        ELSE IF id = "claude" THEN "ClaudeProvider"
        ELSE "OpenAIProvider"]

\* A lookup that falls back to the OpenAI-compatible adapter.
DefaultProvider(id) ==
    IF id \in DOMAIN providers THEN providers[id] ELSE "OpenAIProvider"

\* this.providers[config.provider]: an adapter, undefined, or an inherited member
\* that is no adapter.
ProviderOf(id) ==
    IF id \in DOMAIN providers THEN providers[id]
    ELSE IF id \in ObjectPrototypeMembers THEN "InheritedMember"
    ELSE "undefined"

\* The model of the provider's own list, whatever customModel holds.
ModelOnly(config) == config.model

\* config.customModel || config.model
ModelOf(config) ==
    IF TruthyText(config.customModel) THEN config.customModel ELSE config.model

(***************************************************************************)
(* Provider adapters: buildRequestConfig                                   *)
(***************************************************************************)

\* OpenAIProvider.getDefaultBaseUrl
OpenAI_DefaultBaseUrl == "https://api.openai.com/v1"
\* GeminiProvider.getDefaultBaseUrl
Gemini_DefaultBaseUrl == "https://generativelanguage.googleapis.com/v1beta"
\* ClaudeProvider.getDefaultBaseUrl
Claude_DefaultBaseUrl == "https://api.anthropic.com/v1"

\* config.baseUrl || this.getDefaultBaseUrl()
BaseUrl(config, default) ==
    IF TruthyText(config.baseUrl) THEN config.baseUrl ELSE default

Message(role, content) == [role |-> role, content |-> content]

OpenAIProvider_buildRequestConfig(config, systemPrompt, userPrompt, model, apiKey, stream) ==
    [url |-> BaseUrl(config, OpenAI_DefaultBaseUrl) \o "/chat/completions",
     headers |-> [h \in {"Content-Type", "Authorization"} |->
                     IF h = "Content-Type" THEN "application/json" ELSE "Bearer " \o apiKey],
     body |-> [model |-> model,
               messages |-> (IF systemPrompt # ""
                             THEN << Message("system", systemPrompt) >> ELSE << >>)
                            \o << Message("user", userPrompt) >>,
               temperature |-> "0.3",
               stream |-> stream]]

GeminiProvider_buildRequestConfig(config, systemPrompt, userPrompt, model, apiKey, stream) ==
    LET fullModelName == IF startsWith(model, "models/") THEN model
                         ELSE "models/" \o model
        combinedPrompt == IF systemPrompt # ""
                          THEN systemPrompt \o "\n\n" \o userPrompt
                          ELSE userPrompt
        action == IF stream THEN "streamGenerateContent" ELSE "generateContent"
        queryParams == IF stream THEN "key=" \o apiKey \o "&alt=sse"
                       ELSE "key=" \o apiKey
    IN  [url |-> BaseUrl(config, Gemini_DefaultBaseUrl) \o "/" \o fullModelName
                 \o ":" \o action \o "?" \o queryParams,
         headers |-> [h \in {"Content-Type"} |-> "application/json"],
         body |-> [contents |-> << [parts |-> << [text |-> combinedPrompt] >>] >>,
                   generationConfig |-> [temperature |-> "0.3",
                                         responseMimeType |-> "application/json"]]]

\* A Claude request with the system prompt as a first message.
ClaudeSystemAsMessage(config, systemPrompt, userPrompt, model, apiKey, stream) ==
    [url |-> BaseUrl(config, Claude_DefaultBaseUrl) \o "/messages",
     headers |-> [h \in {"Content-Type", "x-api-key", "anthropic-version"} |->
                     IF h = "Content-Type" THEN "application/json"
                     ELSE IF h = "x-api-key" THEN apiKey
                     ELSE "2023-06-01"],
     body |-> [model |-> model,
               system |-> "",
               messages |-> << Message("system", systemPrompt),
                               Message("user", userPrompt) >>,
               stream |-> stream]]

ClaudeProvider_buildRequestConfig(config, systemPrompt, userPrompt, model, apiKey, stream) ==
    [url |-> BaseUrl(config, Claude_DefaultBaseUrl) \o "/messages",
     headers |-> [h \in {"Content-Type", "x-api-key", "anthropic-version"} |->
                     IF h = "Content-Type" THEN "application/json"
                     ELSE IF h = "x-api-key" THEN apiKey
                     ELSE "2023-06-01"],
     body |-> [model |-> model,
               system |-> systemPrompt,
               messages |-> << Message("user", userPrompt) >>,
               stream |-> stream]]

buildRequestConfig(adapter, config, systemPrompt, userPrompt, model, apiKey, stream) ==
    IF adapter = "OpenAIProvider"
    THEN OpenAIProvider_buildRequestConfig(config, systemPrompt, userPrompt, model, apiKey, stream)
    ELSE IF adapter = "GeminiProvider"
    THEN GeminiProvider_buildRequestConfig(config, systemPrompt, userPrompt, model, apiKey, stream)
    ELSE ClaudeProvider_buildRequestConfig(config, systemPrompt, userPrompt, model, apiKey, stream)


(***************************************************************************)
(* Inbound messages and the prompt templates                               *)
(***************************************************************************)

Msg(action, subtitles, content, title) ==
    [action |-> action, subtitles |-> subtitles, content |-> content, title |-> title]

\* The messages a client may post on a port; the first carries a field the
\* listener has no use for.
Msgs ==
    { Msg("summarizeSubtitlesStream", "subs", NoValue, NoValue) @@ [provider |-> "gemini"],
      Msg("generateArticleMindmapStream", NoValue, "text", "T"),
      Msg("ping", NoValue, NoValue, NoValue) }

\* The actions the port listener starts a generation for.
StreamActions ==
    {"summarizeSubtitlesStream", "generateMindmapStream", "generateArticleMindmapStream"}

\* chrome.i18n.getUILanguage(), the "auto" entry of LANGUAGE_MAP.
UILanguage == "en"

\* getReplyLanguage(): the LANGUAGE_MAP entry of the stored replyLanguage, the
\* "auto" entry when none is stored or storage fails. No configuration of Configs
\* stores a replyLanguage.
getReplyLanguage(config) == UILanguage

\* The prompt templates of PROMPTS. Each is a fixed text around its arguments;
\* the fixed text is abbreviated to a tag.
SUBTITLE_SUMMARY_SYSTEM(language) == "S1:" \o language
MINDMAP_GENERATION(language) == "S2:" \o language
SUBTITLE_SUMMARY_USER(subtitles) == "U1:" \o subtitles
MINDMAP_VIDEO_USER(subtitles) == "U2:" \o subtitles
MINDMAP_ARTICLE_USER(content, title) == "U3:" \o title \o "|" \o content

\* The prompts the listener passes to streamAI for a message.
SystemPromptOf(msg, config) ==
    IF msg.action = "summarizeSubtitlesStream"
    THEN SUBTITLE_SUMMARY_SYSTEM(getReplyLanguage(config))
    ELSE MINDMAP_GENERATION(getReplyLanguage(config))

UserPromptOf(msg) ==
    IF msg.action = "summarizeSubtitlesStream" THEN SUBTITLE_SUMMARY_USER(msg.subtitles)
    ELSE IF msg.action = "generateMindmapStream" THEN MINDMAP_VIDEO_USER(msg.subtitles)
    ELSE MINDMAP_ARTICLE_USER(msg.content, msg.title)

(***************************************************************************)
(* Upstream responses                                                      *)
(***************************************************************************)

\* The event stream of an OpenAI-compatible upstream: two content deltas and the
\* sentinel.
Body_OpenAI_Hello ==
    Chars("data: {\"choices\":[{\"delta\":{\"content\":\"Hel\"}}]}\n\n")
    \o Chars("data: {\"choices\":[{\"delta\":{\"content\":\"lo\"}}]}\n\n")
    \o Chars("data: [DONE]\n\n")
\* An OpenAI-compatible stream with an event line, a CRLF line end, a two-byte
\* character, a truncated payload, a data line without the space, the sentinel
\* followed by more deltas, and a last line that no newline ends.
Body_OpenAI_Mixed ==
    Chars("event: x\n")
    \o Chars("data: {\"choices\":[{\"delta\":{\"content\":\"") \o << EAcute >>
    \o Chars("\"}}]}\r\n")
    \o Chars("data: {\"choices\":[{\"delta\":\n")
    \o Chars("data:{\"choices\":[{\"delta\":{\"content\":\"n\"}}]}\n")
    \o Chars("data: [DONE]\n")
    \o Chars("data: {\"choices\":[{\"delta\":{\"reasoning\":\"r\"}}]}\n")
    \o Chars("data: {\"choices\":[{\"delta\":{\"content\":\"z\"}}]}")
Body_Gemini ==
    Chars("data: {\"candidates\":[{\"content\":{\"parts\":[{\"text\":\"Hi\"}]}}]}\n\n")
Body_Claude ==
    Chars("event: message_start\n")
    \o Chars("data: {\"type\":\"message_start\"}\n\n")
    \o Chars("data: {\"type\":\"content_block_delta\",\"delta\":{\"text\":\"Hi\"}}\n\n")
    \o Chars("data: {\"type\":\"message_stop\"}\n\n")

\* A well-formed event stream in an adapter's dialect: the bytes the upstream
\* sends and the deltas the stream carries, in order.
EventStream(dialect, body, deltas) ==
    [dialect |-> dialect, body |-> Utf8Encode(body), deltas |-> deltas]

EventStreams ==
    << EventStream("OpenAIProvider", Body_OpenAI_Hello,
                   << StreamChunk(JStr(Chars("Hel")), JNull),
                      StreamChunk(JStr(Chars("lo")), JNull) >>),
       EventStream("OpenAIProvider", Body_OpenAI_Mixed,
                   << StreamChunk(JStr(<< EAcute >>), JNull),
                      StreamChunk(JNull, JStr(Chars("r"))) >>),
       EventStream("GeminiProvider", Body_Gemini,
                   << StreamChunk(JStr(Chars("Hi")), JNull) >>),
       EventStream("ClaudeProvider", Body_Claude,
                   << StreamChunk(JStr(Chars("Hi")), JNull) >>) >>

NoBody == << -1 >>

\* A response: status line, body bytes (NoBody for a null body), the byte
\* offsets at which the transport may end one read before the last, and the
\* deltas its body carries when it is an event stream.
Response(dialect, status, statusText, body, cuts, deltas) ==
    [dialect |-> dialect, status |-> status, statusText |-> statusText, body |-> body,
     cuts |-> cuts, deltas |-> deltas]

\* A successful response that carries event stream i.
StreamResponse(i, cuts) ==
    Response(EventStreams[i].dialect, 200, "OK", EventStreams[i].body, cuts,
             EventStreams[i].deltas)

\* What an upstream may answer: an event stream, a refusal, or a response
\* without a body.
Responses ==
    << StreamResponse(2, {85}),
       StreamResponse(3, {30}),
       StreamResponse(4, {71}),
       Response("any", 401, "Unauthorized", Utf8Encode(Chars("bad key")), {}, << >>),
       Response("any", 204, "No Content", NoBody, {}, << >>) >>

\* A client that takes every response for a success.
AnyStatusOk(status) == TRUE

\* response.ok
ResponseOk(status) == status \in 200..299

\* The responses an upstream that speaks the adapter's dialect may give.
ResponsesFor(adapter) ==
    {r \in 1..Len(Responses) : Responses[r].dialect \in {adapter, "any"}}

\* The offsets at which a read of response r that starts at offset pos may end.
ReadEnds(r, pos) ==
    {c \in Responses[r].cuts \cup {Len(Responses[r].body)} : c > pos}


(***************************************************************************)
(* State                                                                   *)
(***************************************************************************)

\* Most messages the ports receive, all together; where there is more than one
\* port, no port receives all of them.
MaxGens == 2

Ports == {"p1", "p2"}

VARIABLES
    aiConfig,     \* what storage holds under "aiConfig"
    ports,        \* the ports that clients may open
    portState,    \* per port: "none", "open" (an AI_STREAM port with its listeners),
                  \*   "other" (a port of another name), "closed"
    controller,   \* per port: the listener's `controller`, 0 for null, else the
                  \*   number of the message whose AbortController it is
    gens,         \* per port: one record per message received, in order: the run of
                  \*   the onMessage listener for it
    events,       \* per port: every safePostMessage call, in order
    dStream,      \* decode loop alone: the event stream being read (index into
                  \*   EventStreams), 0 when no loop runs alone
    dPos,         \* decode loop alone: bytes read so far
    dState,       \* decode loop alone: the loop's buffer and decoder
    dOut,         \* decode loop alone: the chunks handed to onChunk so far
    dSplits,      \* decode loop alone: the kinds of place at which reads have ended
                  \*   before the end of the stream
    aCall,        \* adapter alone: the adapter and the JSON value it is called with
    aResult,      \* adapter alone: the method called and what the call gave
    summary,      \* SummaryDisplay: its React state as last rendered, the state
                  \*   updates not yet rendered, the effect not yet run, its refs
    mindmap,      \* MindmapDisplay: its React state as last rendered and the state
                  \*   updates not yet rendered
    uiPorts,      \* the AI_STREAM ports the components have opened, in order: what
                  \*   was posted on each, what its listener has handled, and the
                  \*   locals of the internalGenerateMindmap call that opened it
    clock,        \* Date.now() in the side panel, in milliseconds
    cache,        \* what extension storage holds under each component's cacheKey
    capturedSubtitleUrl,  \* the background script's variable of that name
    replies       \* subtitle capture: the requests observed and the messages
                  \*   answered so far, in order

vars ==
    << aiConfig, ports, portState, controller, gens, events,
       dStream, dPos, dState, dOut, dSplits, aCall, aResult,
       summary, mindmap, uiPorts, clock, cache, capturedSubtitleUrl, replies >>
gatewayVars == << aiConfig, ports, portState, controller, gens, events >>
decoderVars == << dStream, dPos, dState, dOut, dSplits >>
adapterVars == << aCall, aResult >>
panelVars == << summary, mindmap, uiPorts, clock, cache >>
captureVars == << capturedSubtitleUrl, replies >>

\* fetch not called.
NoRequest == [url |-> NoValue]

\* A listener that keeps one AbortController for the port: a message that
\* finds a run in flight aborts the controller it then runs with.
TokenReused(msg, prev) ==
    [msg |-> msg,
     pc |-> IF msg.action \in StreamActions THEN "prompt" ELSE "end",
     aborted |-> prev # 0, prev |-> prev, config |-> Unread, request |-> NoRequest,
     issued |-> FALSE, requests |-> 0,
     resp |-> 0, text |-> "pending", pos |-> 0, dec |-> NewDecoder]

\* The run of the listener for one message.
\*   pc       where the run is suspended: "prompt" (awaiting the system prompt),
\*            "getConfig", "fetch", "text" (awaiting response.text()), "read"
\*            (awaiting reader.read()), or "end"
\*   aborted  signal.aborted of the AbortController made for this message
\*   prev     what `controller` held when the message arrived
\*   config   what getConfig resolved with, Unread before
\*   request  what fetch was called with, NoRequest before
\*   issued   fetch was called with a signal that was not yet aborted
\*   requests how many HTTP requests the run has sent upstream
\*   resp     the response fetch resolved with (index into Responses), 0 for none
\*   text     how response.text() settled: "pending", "read" or "failed"
\*   pos      bytes of the body the read loop has been given
\*   dec      the read loop's buffer and decoder
\* pos and dec are locals of the read loop and are dropped when the run ends.
NewGen(msg, prev) ==
    [msg |-> msg,
     pc |-> IF msg.action \in StreamActions THEN "prompt" ELSE "end",
     aborted |-> FALSE, prev |-> prev, config |-> Unread, request |-> NoRequest,
     issued |-> FALSE, requests |-> 0,
     resp |-> 0, text |-> "pending", pos |-> 0, dec |-> NewDecoder]

GatewayInit ==
    /\ aiConfig \in Configs
    /\ portState = [p \in Ports |-> "none"]
    /\ controller = [p \in Ports |-> 0]
    /\ gens = [p \in Ports |-> << >>]
    /\ events = [p \in Ports |-> << >>]

\* `null` of a ref, of mindmapData and of capturedSubtitleUrl.
Null == << "null" >>

\* The time of the first event; lastRenderTime starts at 0, long before it.
StartTime == 1000

\* SummaryDisplay as first rendered.  Storage is empty, so loadCacheData finds
\* nothing and sets nothing.
SummaryMounted ==
    [markdownContent |-> << >>, aiLoading |-> FALSE, reasoning |-> << >>,
     cacheLoaded |-> FALSE, updates |-> << >>, effect |-> FALSE,
     contentRef |-> << >>, portRef |-> 0]

\* MindmapDisplay as first rendered.
MindmapMounted ==
    [mindmapData |-> Null, mindmapLoading |-> FALSE, reasoning |-> << >>,
     cacheLoaded |-> FALSE, updates |-> << >>]

\* The side panel as opened: both components mounted, no port.
PanelIdle ==
    /\ summary = SummaryMounted
    /\ mindmap = MindmapMounted
    /\ uiPorts = << >>
    /\ clock = StartTime
    /\ cache = [summary |-> Null, mindmap |-> Null]

\* `let capturedSubtitleUrl: string | null = null`, nothing observed yet.
CaptureIdle ==
    /\ capturedSubtitleUrl = Null
    /\ replies = << >>

DecoderIdle ==
    /\ dStream = 0
    /\ dPos = 0
    /\ dState = NewDecoder
    /\ dOut = << >>
    /\ dSplits = {}

\* No adapter is called alone.
AdapterIdle ==
    /\ aCall = [adapter |-> "none"]
    /\ aResult = [method |-> "none"]

Init ==
    /\ ports = {"p1"}
    /\ GatewayInit
    /\ DecoderIdle
    /\ AdapterIdle
    /\ PanelIdle
    /\ CaptureIdle

(***************************************************************************)
(* The port listeners                                                      *)
(***************************************************************************)

\* A controller whose abort() does nothing.
NoAbort(gs, c) == gs

\* controller.abort() on a non-null controller.
Abort(gs, c) ==
    IF c = 0 THEN gs ELSE [gs EXCEPT ![c].aborted = TRUE]

\* A message listener that leaves the previous controller alone.
KeepPrevious(gs, c) == gs

\* `if (controller) { controller.abort() }` at the head of the message listener.
AbortPrevious(gs, c) == Abort(gs, c)

\* fetch called without the signal: nothing stops the request.
SignalIgnored(gen) == FALSE

\* The signal fetch is given: the body reads and fetch itself reject once it is
\* aborted.
SignalAborted(gen) == gen.aborted

\* What the port listeners share for one port while a job runs.
PortView(p) == [events |-> events[p], controller |-> controller[p]]

\* A relay that hands the client the newest message first.
PostFirst(p, view, msg) ==
    [view EXCEPT !.events = << msg @@ [delivered |-> portState[p] = "open"] >> \o @]

\* safePostMessage: port.postMessage throws on a disconnected port and the
\* exception is swallowed.
safePostMessage(p, view, msg) ==
    [view EXCEPT !.events = Append(@, msg @@ [delivered |-> portState[p] = "open"])]

ChunkEvent(g, chunk) ==
    [gen |-> g, type |-> "chunk", content |-> chunk.content, reasoning |-> chunk.reasoning]
DoneEvent(g) == [gen |-> g, type |-> "done"]
ErrorEvent(g, error) == [gen |-> g, type |-> "error", error |-> error]

\* A relay that samples: of the chunks of one read it posts the last only.
Sampled(p, g, view, chunks) ==
    IF chunks = << >> THEN view
    ELSE [view EXCEPT !.events =
             Append(@, ChunkEvent(g, chunks[Len(chunks)])
                       @@ [delivered |-> portState[p] = "open"])]

RECURSIVE onChunks(_, _, _, _)
\* The onChunk callback, once per chunk of one read, in order.
onChunks(p, g, view, chunks) ==
    IF chunks = << >> THEN view
    ELSE onChunks(p, g, safePostMessage(p, view, ChunkEvent(g, Head(chunks))), Tail(chunks))

\* A listener that posts nothing when the stream has ended.
DoneUnposted(p, g, view) == [view EXCEPT !.controller = 0]

\* The onDone callback.
onDone(p, g, view) ==
    [safePostMessage(p, view, DoneEvent(g)) EXCEPT !.controller = 0]

\* Callbacks that report no error at all.
AlwaysSuppressed(gen) == TRUE

\* Callbacks without the guard.
NeverSuppressed(gen) == FALSE

\* `if (signal.aborted) return` of the onError callback and of the catch block.
Suppressed(gen) == gen.aborted

\* The onError callback.
onError(p, g, view, error) ==
    IF Suppressed(gens[p][g]) THEN view
    ELSE [safePostMessage(p, view, ErrorEvent(g, error)) EXCEPT !.controller = 0]

\* Error messages.
Error(message) == [name |-> "Error", message |-> message]
NotConfiguredError == Error("AI[U+529F][U+80FD][U+672A][U+914D][U+7F6E]")
UnsupportedError(provider) ==
    [name |-> "Error", message |-> "[U+4E0D][U+652F][U+6301][U+7684]AI[U+670D][U+52A1][U+5546]: ",
     provider |-> provider]
NoStreamError == Error("[U+65E0][U+6CD5][U+83B7][U+53D6][U+54CD][U+5E94][U+6D41]")
HttpError(provider, status, statusText, text) ==
    [name |-> "Error", message |-> " API[U+8BF7][U+6C42][U+5931][U+8D25]: ",
     provider |-> provider, status |-> status, statusText |-> statusText, text |-> text]
\* What the platform and the collaborators reject with.
NotAFunctionError == [name |-> "TypeError", message |-> "provider.buildRequestConfig is not a function"]
NetworkError == [name |-> "TypeError", message |-> "Failed to fetch"]

\* The new state of port p after a job of run g: the run's record and what the
\* callbacks did.
Settle(p, g, gen, view) ==
    /\ gens' = [gens EXCEPT ![p][g] = gen]
    /\ events' = [events EXCEPT ![p] = view.events]
    /\ controller' = [controller EXCEPT ![p] = view.controller]
    /\ UNCHANGED << aiConfig, ports, portState >>
    /\ UNCHANGED << decoderVars, adapterVars, panelVars, captureVars >>

\* A run that goes on after its terminal callback.
StillRunning(gen) == gen

\* The record of a run whose listener has returned.
Ended(gen) == [gen EXCEPT !.pc = "end", !.pos = 0, !.dec = NewDecoder]

\* A streamAI that starts over when something fails.
RetryOnError(p, g, gen, error) ==
    Settle(p, g, [gen EXCEPT !.pc = "getConfig", !.pos = 0, !.dec = NewDecoder],
           PortView(p))

\* streamAI's catch: onError(message), after which the listener returns.
Throw(p, g, gen, error) ==
    Settle(p, g, Ended(gen), onError(p, g, PortView(p), error))

\* chrome.runtime.onConnect: only a port named AI_STREAM gets the listeners.
Connect(p, name) ==
    /\ p \in ports
    /\ portState[p] = "none"
    /\ portState' = [portState EXCEPT ![p] = IF name = "AI_STREAM" THEN "open" ELSE "other"]
    /\ UNCHANGED << aiConfig, ports, controller, gens, events >>
    /\ UNCHANGED << decoderVars, adapterVars, panelVars, captureVars >>

\* One controller for all ports: a disconnect aborts the runs of every port.
DisconnectAll(p) ==
    /\ portState[p] = "open"
    /\ portState' = [portState EXCEPT ![p] = "closed"]
    /\ gens' = [q \in Ports |-> Abort(gens[q], controller[q])]
    /\ controller' = [q \in Ports |-> 0]
    /\ UNCHANGED << aiConfig, ports, events >>
    /\ UNCHANGED << decoderVars, adapterVars, panelVars, captureVars >>

\* port.onDisconnect
Disconnect(p) ==
    /\ portState[p] = "open"
    /\ portState' = [portState EXCEPT ![p] = "closed"]
    /\ gens' = [gens EXCEPT ![p] = Abort(@, controller[p])]
    /\ controller' = [controller EXCEPT ![p] = 0]
    /\ UNCHANGED << aiConfig, ports, events >>
    /\ UNCHANGED << decoderVars, adapterVars, panelVars, captureVars >>

RECURSIVE Messages(_)
\* How many messages the ports ps have received.
Messages(ps) ==
    IF ps = {} THEN 0
    ELSE LET p == CHOOSE q \in ps : TRUE
         IN  Len(gens[p]) + Messages(ps \ {p})

\* A listener that looks at the action first and leaves the controller alone when
\* the action starts nothing.
OnMessageStartOnly(p, msg) ==
    /\ portState[p] = "open"
    /\ Messages(Ports) < MaxGens
    /\ ports # {p} => Len(gens[p]) + 1 < MaxGens
    /\ IF msg.action \in StreamActions
       THEN /\ gens' = [gens EXCEPT ![p] =
                           Append(AbortPrevious(@, controller[p]), NewGen(msg, controller[p]))]
            /\ controller' = [controller EXCEPT ![p] = Len(gens[p]) + 1]
       ELSE /\ gens' = [gens EXCEPT ![p] = Append(@, NewGen(msg, controller[p]))]
            /\ controller' = controller
    /\ UNCHANGED << aiConfig, ports, portState, events >>
    /\ UNCHANGED << decoderVars, adapterVars, panelVars, captureVars >>

\* port.onMessage, up to its first await.
OnMessage(p, msg) ==
    /\ portState[p] = "open"
    /\ Messages(Ports) < MaxGens
    /\ ports # {p} => Len(gens[p]) + 1 < MaxGens
    /\ gens' = [gens EXCEPT ![p] =
                   Append(AbortPrevious(@, controller[p]), NewGen(msg, controller[p]))]
    /\ controller' = [controller EXCEPT ![p] = Len(gens[p]) + 1]
    /\ UNCHANGED << aiConfig, ports, portState, events >>
    /\ UNCHANGED << decoderVars, adapterVars, panelVars, captureVars >>

\* The system prompt settles: the listener builds the user prompt, calls streamAI,
\* and streamAI awaits getConfig.  The prompt does not reject (getReplyLanguage
\* catches what storage throws) and neither does streamAI (its own catch calls
\* onError), so the listener's catch blocks are never entered.
PromptSettled(p, g) ==
    /\ g \in DOMAIN gens[p]
    /\ gens[p][g].pc = "prompt"
    /\ Settle(p, g, [gens[p][g] EXCEPT !.pc = "getConfig"], PortView(p))

\* The request streamAI builds for a message under a configuration that passes
\* its checks.
\* A request built as the one-shot call builds it.
RequestUnstreamed(config, msg) ==
    buildRequestConfig(ProviderOf(config.provider), config, SystemPromptOf(msg, config),
                       UserPromptOf(msg), ModelOf(config), ApiKeyOf(config), FALSE)

\* A request built by the adapter the message names, when it names one.
RequestByMessage(config, msg) ==
    buildRequestConfig(IF "provider" \in DOMAIN msg THEN ProviderOf(msg.provider)
                       ELSE ProviderOf(config.provider),
                       config, SystemPromptOf(msg, config),
                       UserPromptOf(msg), ModelOf(config), ApiKeyOf(config), TRUE)

RequestOf(config, msg) ==
    buildRequestConfig(ProviderOf(config.provider), config, SystemPromptOf(msg, config),
                       UserPromptOf(msg), ModelOf(config), ApiKeyOf(config), TRUE)

\* getConfig settles (null when storage fails); streamAI runs up to fetch, which is
\* given RequestOf(config, msg) and the signal.
ConfigSettled(p, g, readable) ==
    /\ g \in DOMAIN gens[p]
    /\ gens[p][g].pc = "getConfig"
    /\ LET config == IF readable THEN aiConfig ELSE NoConfig
           gen == [gens[p][g] EXCEPT !.config = config]
           apiKey == ApiKeyOf(config)
           provider == ProviderOf(config.provider)
       IN  IF NotConfigured(config, apiKey) THEN Throw(p, g, gen, NotConfiguredError)
           ELSE IF provider = "undefined"
                THEN Throw(p, g, gen, UnsupportedError(config.provider))
           ELSE IF provider = "InheritedMember" THEN Throw(p, g, gen, NotAFunctionError)
           ELSE Settle(p, g,
                       [gen EXCEPT !.pc = "fetch",
                                   !.request = RequestOf(config, gen.msg),
                                   !.issued = ~SignalAborted(gen),
                                   !.requests = IF SignalAborted(gen) THEN @ ELSE @ + 1],
                       PortView(p))

\* The adapter of the run's request.
AdapterOf(gen) == ProviderOf(gen.config.provider)

\* fetch settles: rejected when the signal is aborted or the network fails (r = 0),
\* else resolved with response r.
FetchSettled(p, g, r) ==
    /\ g \in DOMAIN gens[p]
    /\ gens[p][g].pc = "fetch"
    /\ r \in {0} \cup ResponsesFor(AdapterOf(gens[p][g]))
    /\ LET gen == gens[p][g]
       IN  IF SignalAborted(gen) \/ r = 0 THEN Throw(p, g, gen, NetworkError)
           ELSE IF ~ResponseOk(Responses[r].status)
                THEN Settle(p, g, [gen EXCEPT !.pc = "text", !.resp = r], PortView(p))
           ELSE IF Responses[r].body = NoBody
                THEN Settle(p, g, Ended([gen EXCEPT !.resp = r]),
                            onError(p, g, PortView(p), NoStreamError))
           ELSE Settle(p, g, [gen EXCEPT !.pc = "read", !.resp = r], PortView(p))

\* response.text() of a non-ok response settles.
TextSettled(p, g, readable) ==
    /\ g \in DOMAIN gens[p]
    /\ gens[p][g].pc = "text"
    /\ LET gen == gens[p][g]
           response == Responses[gen.resp]
           text == Utf8Decode(response.body, FALSE).text
       IN  IF SignalAborted(gen) \/ ~readable
           THEN Throw(p, g, [gen EXCEPT !.text = "failed"], NetworkError)
           ELSE Throw(p, g, [gen EXCEPT !.text = "read"],
                      HttpError(gen.config.provider, response.status,
                                response.statusText, text))

\* reader.read() settles with the bytes up to offset `to`: one pass of the loop.
ReadValue(p, g, to) ==
    /\ gens[p][g].pc = "read"
    /\ ~SignalAborted(gens[p][g])
    /\ LET gen == gens[p][g]
           value == SubSeq(Responses[gen.resp].body, gen.pos + 1, to)
           next == DecodeRead(AdapterOf(gen), gen.dec, value)
       IN  Settle(p, g,
                  [gen EXCEPT !.pos = to,
                              !.dec = [buffer |-> next.buffer, pending |-> next.pending]],
                  onChunks(p, g, PortView(p), next.chunks))

\* A loop that processes what is left in the buffer when the body ends.
ReadDoneFlushing(p, g) ==
    /\ g \in DOMAIN gens[p]
    /\ gens[p][g].pc = "read"
    /\ ~SignalAborted(gens[p][g])
    /\ gens[p][g].pos = Len(Responses[gens[p][g].resp].body)
    /\ Settle(p, g, Ended(gens[p][g]),
              onDone(p, g, onChunks(p, g, PortView(p),
                                    ProcessLines(AdapterOf(gens[p][g]),
                                                 << gens[p][g].dec.buffer >>))))

\* reader.read() settles with done: the loop ends and onDone is called.
ReadDone(p, g) ==
    /\ g \in DOMAIN gens[p]
    /\ gens[p][g].pc = "read"
    /\ ~SignalAborted(gens[p][g])
    /\ gens[p][g].pos = Len(Responses[gens[p][g].resp].body)
    /\ Settle(p, g, Ended(gens[p][g]), onDone(p, g, PortView(p)))

\* reader.read() rejects: the signal was aborted, or the connection failed.
ReadFailed(p, g) ==
    /\ g \in DOMAIN gens[p]
    /\ gens[p][g].pc = "read"
    /\ Throw(p, g, gens[p][g], NetworkError)

\* The offsets at which the pending read of run g may end.
PendingReadEnds(p, g) ==
    IF gens[p][g].pc = "read" THEN ReadEnds(gens[p][g].resp, gens[p][g].pos) ELSE {}

Next ==
    \/ \E p \in ports, name \in {"AI_STREAM", "OTHER"} : Connect(p, name)
    \/ \E p \in ports : Disconnect(p)
    \/ \E p \in ports, msg \in Msgs : OnMessage(p, msg)
    \/ \E p \in ports : \E g \in DOMAIN gens[p] : PromptSettled(p, g)
    \/ \E p \in ports, readable \in BOOLEAN : \E g \in DOMAIN gens[p] :
          ConfigSettled(p, g, readable)
    \/ \E p \in ports : \E g \in DOMAIN gens[p] : \E r \in 0..Len(Responses) :
          FetchSettled(p, g, r)
    \/ \E p \in ports, readable \in BOOLEAN : \E g \in DOMAIN gens[p] :
          TextSettled(p, g, readable)
    \/ \E p \in ports : \E g \in DOMAIN gens[p] : \E to \in PendingReadEnds(p, g) :
          ReadValue(p, g, to)
    \/ \E p \in ports : \E g \in DOMAIN gens[p] : ReadDone(p, g)
    \/ \E p \in ports : \E g \in DOMAIN gens[p] : ReadFailed(p, g)

Spec == Init /\ [][Next]_vars

\* The next job of run g on port p: the promise its listener awaits settles and
\* the listener runs on to its next await or to its end.
Progress(p, g) ==
    \/ PromptSettled(p, g)
    \/ \E readable \in BOOLEAN : ConfigSettled(p, g, readable)
    \/ \E r \in 0..Len(Responses) : FetchSettled(p, g, r)
    \/ \E readable \in BOOLEAN : TextSettled(p, g, readable)
    \/ ReadFailed(p, g)
    \/ ReadDone(p, g)
    \/ \E to \in PendingReadEnds(p, g) : ReadValue(p, g, to)

\* Every promise a listener awaits settles (storage answers, and the upstream
\* answers, sends on, ends or fails), and the event loop runs the job that waits
\* for it.
Fairness ==
    WF_vars(\E p \in Ports : \E g \in DOMAIN gens[p] : Progress(p, g))

SpecFair == Init /\ [][Next]_vars /\ Fairness

\* Two clients, each with a port of its own, under a configuration with which
\* requests are sent.
InitPorts ==
    /\ ports = Ports
    /\ GatewayInit
    /\ aiConfig.provider = "claude"
    /\ DecoderIdle
    /\ AdapterIdle
    /\ PanelIdle
    /\ CaptureIdle

SpecPorts == InitPorts /\ [][Next]_vars

(***************************************************************************)
(* The decode loop alone, on every way of splitting a stream into reads    *)
(***************************************************************************)

\* Where a read that ends at offset `to` of the bytes stops: inside a character,
\* right after a newline, or elsewhere in a line.
SplitKind(bytes, to) ==
    IF IsContinuation(bytes[to + 1]) THEN "character"
    ELSE IF bytes[to] = 10 THEN "newline"
    ELSE "line"

InitDecode ==
    /\ aiConfig = NoConfig
    /\ ports = {}
    /\ portState = [p \in Ports |-> "none"]
    /\ controller = [p \in Ports |-> 0]
    /\ gens = [p \in Ports |-> << >>]
    /\ events = [p \in Ports |-> << >>]
    /\ dStream \in 1..Len(EventStreams)
    /\ dPos = 0
    /\ dState = NewDecoder
    /\ dOut = << >>
    /\ dSplits = {}
    /\ AdapterIdle
    /\ PanelIdle
    /\ CaptureIdle

\* One pass of `while (true)`: reader.read() gives the bytes up to offset `to`.
DecodeStep(to) ==
    /\ dStream # 0
    /\ LET stream == EventStreams[dStream]
           value == SubSeq(stream.body, dPos + 1, to)
           next == DecodeRead(stream.dialect, dState, value)
       IN  /\ dPos' = to
           /\ dState' = [buffer |-> next.buffer, pending |-> next.pending]
           /\ dOut' = dOut \o next.chunks
           /\ dSplits' = IF to = Len(stream.body) THEN dSplits
                         ELSE dSplits \cup {SplitKind(stream.body, to)}
    /\ UNCHANGED dStream
    /\ UNCHANGED << gatewayVars, adapterVars, panelVars, captureVars >>

\* Most bytes of a read that neither starts the stream nor ends it.
MaxReadLen == 4

\* The offsets at which the next read may end: the first read and the last are of
\* any length.
DecodeEnds ==
    IF dStream = 0 THEN {}
    ELSE {to \in (dPos + 1)..Len(EventStreams[dStream].body) :
             \/ dPos = 0
             \/ to = Len(EventStreams[dStream].body)
             \/ to - dPos <= MaxReadLen}

NextDecode ==
    \E to \in DecodeEnds : DecodeStep(to)

SpecDecode == InitDecode /\ [][NextDecode]_vars

(***************************************************************************)
(* The adapters alone, on JSON values of every shape                       *)
(***************************************************************************)

\* The values that are not containers, and the empty containers.
Leaves ==
    { JNull, JBool(FALSE), JBool(TRUE), JNum(Chars("0")), JNum(Chars("5")),
      JStr(<< >>), JStr(Chars("hi")), JArr(<< >>), JObj(EmptyMembers) }

\* The paths the adapters read: a name is a member, "[0]" the first element.
Paths ==
    { << "choices", "[0]", "delta", "content" >>,
      << "choices", "[0]", "delta", "reasoning_content" >>,
      << "choices", "[0]", "delta", "reasoning" >>,
      << "choices", "[0]", "message", "content" >>,
      << "candidates", "[0]", "content", "parts", "[0]", "text" >>,
      << "delta", "text" >>,
      << "content", "[0]", "text" >>,
      << "type" >> }

RECURSIVE Nest(_, _)
\* The value that holds `leaf` at the end of `path` and nothing else.
Nest(path, leaf) ==
    IF path = << >> THEN leaf
    ELSE IF Head(path) = "[0]" THEN JArr(<< Nest(Tail(path), leaf) >>)
    ELSE JObj(Chars(Head(path)) :> Nest(Tail(path), leaf))

\* A Claude event of a type, with a delta that holds a text.
ClaudeEvent(type, text) ==
    JObj(Chars("type") :> JStr(Chars(type))
         @@ Chars("delta") :> JObj(Chars("text") :> text))

\* The JSON values an adapter is called with: every beginning of every path, cut
\* off by every leaf, and Claude events of a delta type and of other types.
JsonValues ==
    UNION { { Nest(SubSeq(path, 1, k), leaf) : k \in 0..Len(path), leaf \in Leaves } :
                path \in Paths }
    \cup { ClaudeEvent(type, text) :
              type \in {"content_block_delta", "message_start", "ping"},
              text \in Leaves }

InitAdapters ==
    /\ aiConfig = NoConfig
    /\ ports = {}
    /\ portState = [p \in Ports |-> "none"]
    /\ controller = [p \in Ports |-> 0]
    /\ gens = [p \in Ports |-> << >>]
    /\ events = [p \in Ports |-> << >>]
    /\ DecoderIdle
    /\ aCall \in [adapter : Adapters, value : JsonValues]
    /\ aResult = [method |-> "none"]
    /\ PanelIdle
    /\ CaptureIdle

\* provider.parseStreamChunk(data) and the test of the loop on what it gave.
CallParseStreamChunk ==
    /\ aCall.adapter \in Adapters
    /\ aResult.method = "none"
    /\ LET chunkData == parseStreamChunk(aCall.adapter, aCall.value)
       IN  aResult' = [method |-> "parseStreamChunk", value |-> chunkData,
                       emitted |-> Emits(chunkData)]
    /\ UNCHANGED << gatewayVars, decoderVars, aCall, panelVars, captureVars >>

\* provider.extractContent(data)
CallExtractContent ==
    /\ aCall.adapter \in Adapters
    /\ aResult.method = "none"
    /\ aResult' = [method |-> "extractContent",
                   value |-> extractContent(aCall.adapter, aCall.value)]
    /\ UNCHANGED << gatewayVars, decoderVars, aCall, panelVars, captureVars >>

NextAdapters ==
    \/ CallParseStreamChunk
    \/ CallExtractContent

SpecAdapters == InitAdapters /\ [][NextAdapters]_vars

(***************************************************************************)
(* The request builders alone, on every adapter, configuration and prompts *)
(***************************************************************************)

\* Configurations streamAI builds a request for: with no customModel, with an
\* empty one, with one set, and with a baseUrl set.
RequestConfigs ==
    { AIConfig("openai", [p \in {"openai"} |-> "k"], "gpt-x", NoValue, NoValue),
      AIConfig("openai", [p \in {"openai"} |-> "k"], "gpt-x", "my-model", "https://proxy/v1"),
      AIConfig("gemini", [p \in {"gemini"} |-> "k"], "gemini-pro", NoValue, NoValue),
      AIConfig("gemini", [p \in {"gemini"} |-> "k"], "gemini-pro", "models/tuned", NoValue),
      AIConfig("claude", [p \in {"claude"} |-> "k"], "claude-3", "", NoValue) }

\* The arguments of a call of buildRequestConfig; streamAI uses the configuration
\* only.
InitRequests ==
    /\ aiConfig = NoConfig
    /\ ports = {}
    /\ portState = [p \in Ports |-> "none"]
    /\ controller = [p \in Ports |-> 0]
    /\ gens = [p \in Ports |-> << >>]
    /\ events = [p \in Ports |-> << >>]
    /\ DecoderIdle
    /\ aCall \in [adapter : Adapters, config : RequestConfigs,
                  systemPrompt : {"", "S"}, userPrompt : {"U", "S"}, stream : BOOLEAN]
    /\ aResult = [method |-> "none"]
    /\ PanelIdle
    /\ CaptureIdle

\* provider.buildRequestConfig(config, systemPrompt, userPrompt, model, apiKey, stream)
CallBuildRequestConfig ==
    /\ "stream" \in DOMAIN aCall
    /\ aResult.method = "none"
    /\ aResult' = [method |-> "buildRequestConfig",
                   value |-> buildRequestConfig(aCall.adapter, aCall.config,
                                                aCall.systemPrompt, aCall.userPrompt,
                                                ModelOf(aCall.config),
                                                ApiKeyOf(aCall.config), aCall.stream)]
    /\ UNCHANGED << gatewayVars, decoderVars, aCall, panelVars, captureVars >>

\* streamAI, from the configuration it read to the request it hands to fetch, for
\* the prompts of a message.
CallStreamAI(msg) ==
    /\ "stream" \in DOMAIN aCall
    /\ aResult.method = "none"
    /\ msg.action \in StreamActions
    /\ ~NotConfigured(aCall.config, ApiKeyOf(aCall.config))
    /\ ProviderOf(aCall.config.provider) \in Adapters
    /\ aResult' = [method |-> "streamAI", msg |-> msg,
                   value |-> RequestOf(aCall.config, msg)]
    /\ UNCHANGED << gatewayVars, decoderVars, aCall, panelVars, captureVars >>

NextRequests ==
    \/ CallBuildRequestConfig
    \/ \E msg \in Msgs : CallStreamAI(msg)

SpecRequests == InitRequests /\ [][NextRequests]_vars

(***************************************************************************)
(* The side panel: SummaryDisplay and MindmapDisplay                       *)
(*                                                                         *)
(* Both components are mounted with a generateConfig whose getContent      *)
(* gives text and with a cacheKey.  React keeps, per component, the state  *)
(* of the last render.  A setter called by a port listener queues an       *)
(* update that a later render applies; an effect runs after the render     *)
(* that scheduled it, in a job of its own, and at the latest before the    *)
(* next render.  A click is a discrete event: React renders and runs the   *)
(* effects before the job of the click handler ends.  Port messages are    *)
(* jobs of their own, so any number of them may be handled between two     *)
(* renders.                                                                *)
(***************************************************************************)

\* How many ports the panel opens, how many chunk events the gateway posts in
\* all, and the clock: it advances by TickMs up to MaxTime.
MaxUiPorts == 2
MaxChunks == 2
TickMs == 300
MaxTime == 1600

\* The content of the chunk events, and the one reasoning text.
Backtick == "U+0060"
Fence == << Backtick, Backtick, Backtick >>
ChunkTexts == {Fence \o Chars("md\n- a"), Chars("\n- b") \o Fence}
ReasoningText == Chars("r")

\* What the gateway posts on a port: chunk events with content or with
\* reasoning, and the two terminal events.
UiChunk(content, reasoning) ==
    [type |-> "chunk", content |-> content, reasoning |-> reasoning, error |-> << >>]
UiDone == [type |-> "done", content |-> << >>, reasoning |-> << >>, error |-> << >>]
UiError == [type |-> "error", content |-> << >>, reasoning |-> << >>, error |-> Chars("E")]
UiEvents ==
    {UiChunk(c, << >>) : c \in ChunkTexts} \cup {UiChunk(<< >>, ReasoningText), UiDone, UiError}

\* A queued state update: the setter, and the text it is called with, if any.
Update(setter, text) == [setter |-> setter, text |-> text]

\* The state after one queued update.
ApplyUpdate(c, u) ==
    CASE u.setter = "setAiLoading(true)" -> [c EXCEPT !.aiLoading = TRUE]
      [] u.setter = "setAiLoading(false)" -> [c EXCEPT !.aiLoading = FALSE]
      [] u.setter = "setMindmapLoading(true)" -> [c EXCEPT !.mindmapLoading = TRUE]
      [] u.setter = "setMindmapLoading(false)" -> [c EXCEPT !.mindmapLoading = FALSE]
      [] u.setter = "setCacheLoaded(false)" -> [c EXCEPT !.cacheLoaded = FALSE]
      [] u.setter = "setMarkdownContent" -> [c EXCEPT !.markdownContent = u.text]
      [] u.setter = "setMarkdownContent(prev)" ->
            [c EXCEPT !.markdownContent = c.markdownContent \o u.text]
      [] u.setter = "setReasoning" -> [c EXCEPT !.reasoning = u.text]
      [] u.setter = "setReasoning(prev)" -> [c EXCEPT !.reasoning = c.reasoning \o u.text]
      [] u.setter = "setMindmapData" -> [c EXCEPT !.mindmapData = u.text]

RECURSIVE ApplyUpdates(_, _)
\* The state after the queued updates, in the order of the calls.
ApplyUpdates(c, updates) ==
    IF updates = << >> THEN c
    ELSE ApplyUpdates(ApplyUpdate(c, Head(updates)), Tail(updates))

\* `useEffect(() => { contentRef.current = markdownContent }, [markdownContent])`
\* of the last render, when it has not run yet.
RunEffect(c) ==
    IF c.effect THEN [c EXCEPT !.contentRef = c.markdownContent, !.effect = FALSE]
    ELSE c

\* A render of SummaryDisplay: pending effects first, then the queued updates;
\* the effect is scheduled when markdownContent has changed.
RenderedSummary(c) ==
    LET flushed == RunEffect(c)
        next == ApplyUpdates(flushed, c.updates)
    IN  [next EXCEPT !.updates = << >>,
                     !.effect = (next.markdownContent # c.markdownContent)]

\* A render of MindmapDisplay.
RenderedMindmap(c) == [ApplyUpdates(c, c.updates) EXCEPT !.updates = << >>]

\* A port as chrome.runtime.connect({ name: "AI_STREAM" }) gives it, with the
\* locals of the internalGenerateMindmap call (unused by SummaryDisplay).
NewPort(owner) ==
    [owner |-> owner, connected |-> TRUE, sent |-> << >>, received |-> << >>,
     accumulatedPlaintext |-> << >>, lastRenderTime |-> 0, saving |-> Null]

\* port.disconnect() on port p; `if (portRef.current) portRef.current.disconnect()`
\* passes 0 for null.
DisconnectUi(ps, p) == IF p = 0 THEN ps ELSE [ps EXCEPT ![p].connected = FALSE]

\* A Button that is clickable whatever `disabled` says.
AlwaysEnabled(loading) == TRUE

\* `disabled={aiLoading}`, `disabled={mindmapLoading}`: the flag of the last render.
ButtonEnabled(loading) == ~loading

RECURSIVE ChunksReceived(_)
\* The number of chunk events that the listeners of some ports have handled.
ChunksReceived(ps) ==
    IF ps = << >> THEN 0
    ELSE Cardinality({i \in 1..Len(Head(ps).received) : Head(ps).received[i].type = "chunk"})
             + ChunksReceived(Tail(ps))

\* The gateway posts chunks, then one done or error, to a port that has sent
\* its start message; a disconnected port delivers nothing.
Deliverable(port, msg) ==
    /\ port.connected
    /\ port.sent # << >>
    /\ \A i \in 1..Len(port.received) : port.received[i].type = "chunk"
    /\ msg.type = "chunk" => ChunksReceived(uiPorts) < MaxChunks

\* The start message of SummaryDisplay.
SummaryStart == [action |-> "summarizeSubtitlesStream", subtitles |-> "subs"]

\* generateSummary up to chrome.runtime.connect.
SummaryCleared(c) ==
    [c EXCEPT !.updates = c.updates \o
                  << Update("setAiLoading(true)", << >>), Update("setMarkdownContent", << >>),
                     Update("setReasoning", << >>), Update("setCacheLoaded(false)", << >>) >>,
              !.contentRef = << >>]

\* The click on the generate Button: generateSummary(!!markdownContent).  When
\* chrome.runtime.connect throws (the extension context is gone) the call ends
\* there.
GenerateSummary(connects) ==
    LET c == summary
        forceRegenerate == c.markdownContent # << >>
        p == Len(uiPorts) + 1
        cleared == SummaryCleared(c)
        closed == DisconnectUi(uiPorts, c.portRef)
        opened == Append(closed, [NewPort("summary") EXCEPT !.sent = << SummaryStart >>])
    IN  /\ ButtonEnabled(c.aiLoading)
        /\ Len(uiPorts) < MaxUiPorts
        /\ IF ~forceRegenerate /\ c.markdownContent # << >> /\ ~c.aiLoading
           THEN UNCHANGED << summary, uiPorts >>
           ELSE IF connects
           THEN /\ summary' = RunEffect(RenderedSummary([cleared EXCEPT !.portRef = p]))
                /\ uiPorts' = opened
           ELSE /\ summary' = RunEffect(RenderedSummary(cleared))
                /\ uiPorts' = closed
        /\ UNCHANGED << mindmap, clock, cache >>
        /\ UNCHANGED << gatewayVars, decoderVars, adapterVars, captureVars >>

\* The updates the listener of SummaryDisplay queues for a message.
SummaryUpdates(msg) ==
    CASE msg.type = "chunk" ->
            (IF msg.reasoning # << >> THEN << Update("setReasoning(prev)", msg.reasoning) >>
             ELSE << >>)
            \o (IF msg.content # << >>
                THEN << Update("setReasoning", << >>),
                        Update("setMarkdownContent(prev)", msg.content) >>
                ELSE << >>)
      [] msg.type = "done" -> << Update("setAiLoading(false)", << >>), Update("setReasoning", << >>) >>
      [] msg.type = "error" -> << Update("setAiLoading(false)", << >>) >>

\* The onMessage listener of the port that generateSummary opened.
OnSummaryMessage(p, msg) ==
    LET port == uiPorts[p]
        received == [uiPorts EXCEPT ![p].received = Append(@, msg)]
        terminal == msg.type \in {"done", "error"}
    IN  /\ port.owner = "summary"
        /\ Deliverable(port, msg)
        /\ summary' = [summary EXCEPT !.updates = @ \o SummaryUpdates(msg),
                                      !.portRef = IF terminal THEN 0 ELSE @]
        /\ cache' = IF msg.type = "done" THEN [cache EXCEPT !.summary = summary.contentRef]
                    ELSE cache
        /\ uiPorts' = IF terminal THEN DisconnectUi(received, p) ELSE received
        /\ UNCHANGED << mindmap, clock >>
        /\ UNCHANGED << gatewayVars, decoderVars, adapterVars, captureVars >>

\* React renders SummaryDisplay with the updates queued so far.
RenderSummary ==
    /\ summary.updates # << >>
    /\ summary' = RenderedSummary(summary)
    /\ UNCHANGED << mindmap, uiPorts, clock, cache >>
    /\ UNCHANGED << gatewayVars, decoderVars, adapterVars, captureVars >>

\* React runs the effect that copies markdownContent into contentRef.
EffectSummary ==
    /\ summary.effect
    /\ summary' = RunEffect(summary)
    /\ UNCHANGED << mindmap, uiPorts, clock, cache >>
    /\ UNCHANGED << gatewayVars, decoderVars, adapterVars, captureVars >>

\* The characters of \w, and the places where ^ and $ match under the m flag
\* besides the two ends of the text.
WordChars ==
    LET w == Chars("ABCDEFGHIJKLMNOPQRSTUVWXYZabcdefghijklmnopqrstuvwxyz0123456789_")
    IN  {w[i] : i \in 1..Len(w)}
LineTerminators == {LF, CR}

\* Whether the characters of w stand in s from position i on.
At(s, i, w) == i + Len(w) - 1 <= Len(s) /\ SubSeq(s, i, i + Len(w) - 1) = w

RECURSIVE SkipWord(_, _)
\* The first position from i on that holds no \w character.
SkipWord(s, i) == IF i <= Len(s) /\ s[i] \in WordChars THEN SkipWord(s, i + 1) ELSE i

RECURSIVE StripOpening(_, _)
\* .replace(/^```[\w]*\n?/gm, ""), from position i on.
StripOpening(s, i) ==
    IF i > Len(s) THEN << >>
    ELSE IF (i = 1 \/ s[i - 1] \in LineTerminators) /\ At(s, i, Fence)
    THEN LET j == SkipWord(s, i + 3)
         IN  StripOpening(s, IF j <= Len(s) /\ s[j] = LF THEN j + 1 ELSE j)
    ELSE << s[i] >> \o StripOpening(s, i + 1)

RECURSIVE StripClosing(_, _)
\* .replace(/```$/gm, ""), from position i on.
StripClosing(s, i) ==
    IF i > Len(s) THEN << >>
    ELSE IF At(s, i, Fence) /\ (i + 3 > Len(s) \/ s[i + 3] \in LineTerminators)
    THEN StripClosing(s, i + 3)
    ELSE << s[i] >> \o StripClosing(s, i + 1)

\* ResponseParser.cleanMindmapResponse.
cleanMindmapResponse(content) ==
    IF content = << >> THEN << >>
    ELSE trim(StripClosing(StripOpening(content, 1), 1))

\* plaintextToMindElixir when it returns: a tree that its text determines.
plaintextToMindElixir(cleanedText) == << "root" >> \o cleanedText

\* `const RENDER_THROTTLE_MS = 500`.
RENDER_THROTTLE_MS == 500

\* The start message of MindmapDisplay.
MindmapStart == [action |-> "generateMindmapStream", subtitles |-> "subs"]

\* The click on the generate Button: handleGenerate, which calls
\* internalGenerateMindmap(!!mindmapData).  When chrome.runtime.connect throws,
\* the catch block clears the flag.
GenerateMindmap(connects) ==
    LET c == mindmap
        forceRegenerate == c.mindmapData # Null
        started == [c EXCEPT !.updates = c.updates \o
                        << Update("setMindmapLoading(true)", << >>),
                           Update("setMindmapData", Null), Update("setReasoning", << >>) >>]
        failed == [started EXCEPT !.updates = @ \o << Update("setMindmapLoading(false)", << >>) >>]
    IN  /\ ButtonEnabled(c.mindmapLoading)
        /\ Len(uiPorts) < MaxUiPorts
        /\ IF ~forceRegenerate /\ c.mindmapData # Null
           THEN UNCHANGED << mindmap, uiPorts >>
           ELSE IF connects
           THEN /\ mindmap' = RenderedMindmap(started)
                /\ uiPorts' =
                       Append(uiPorts, [NewPort("mindmap") EXCEPT !.sent = << MindmapStart >>])
           ELSE /\ mindmap' = RenderedMindmap(failed)
                /\ UNCHANGED uiPorts
        /\ UNCHANGED << summary, clock, cache >>
        /\ UNCHANGED << gatewayVars, decoderVars, adapterVars, captureVars >>

\* A listener that adds a chunk to the text only when it renders it.
AccumulateRendered(port, msg, now) ==
    IF now - port.lastRenderTime > RENDER_THROTTLE_MS
    THEN port.accumulatedPlaintext \o msg.content
    ELSE port.accumulatedPlaintext

\* `accumulatedPlaintext += msg.content || ""`.
Accumulate(port, msg, now) == port.accumulatedPlaintext \o msg.content

\* The listener of MindmapDisplay for a chunk event; `parses` says whether
\* plaintextToMindElixir returns or throws.
OnMindmapChunk(p, msg, parses) ==
    LET port == uiPorts[p]
        now == clock
        accumulated == IF msg.content # << >> THEN Accumulate(port, msg, now)
                       ELSE port.accumulatedPlaintext
        renders == msg.content # << >> /\ now - port.lastRenderTime > RENDER_THROTTLE_MS
        data == plaintextToMindElixir(cleanMindmapResponse(accumulated))
    IN  /\ mindmap' =
               [mindmap EXCEPT !.updates = @
                   \o (IF msg.reasoning # << >>
                       THEN << Update("setReasoning(prev)", msg.reasoning) >> ELSE << >>)
                   \o (IF msg.content # << >> THEN << Update("setReasoning", << >>) >> ELSE << >>)
                   \o (IF renders /\ parses THEN << Update("setMindmapData", data) >>
                       ELSE << >>)]
        /\ uiPorts' = [uiPorts EXCEPT
                           ![p].received = Append(@, msg),
                           ![p].accumulatedPlaintext = accumulated,
                           ![p].lastRenderTime = IF renders /\ parses THEN now ELSE @]
        /\ UNCHANGED cache

\* The listener for the done event, up to `await saveCacheData(data)`; when
\* plaintextToMindElixir throws, the catch and finally blocks run at once.
OnMindmapDone(p, msg, parses) ==
    LET port == uiPorts[p]
        data == plaintextToMindElixir(cleanMindmapResponse(port.accumulatedPlaintext))
        received == [uiPorts EXCEPT ![p].received = Append(@, msg)]
    IN  /\ mindmap' =
               [mindmap EXCEPT !.updates = @ \o << Update("setReasoning", << >>) >>
                   \o (IF parses THEN << Update("setMindmapData", data) >>
                       ELSE << Update("setMindmapLoading(false)", << >>) >>)]
        /\ uiPorts' = IF parses THEN [received EXCEPT ![p].saving = data]
                      ELSE DisconnectUi(received, p)
        /\ UNCHANGED cache

\* The listener for the error event.
OnMindmapError(p, msg) ==
    /\ mindmap' = [mindmap EXCEPT !.updates = @ \o << Update("setMindmapLoading(false)", << >>) >>]
    /\ uiPorts' = DisconnectUi([uiPorts EXCEPT ![p].received = Append(@, msg)], p)
    /\ UNCHANGED cache

\* The onMessage listener of the port that internalGenerateMindmap opened.
OnMindmapMessage(p, msg, parses) ==
    /\ uiPorts[p].owner = "mindmap"
    /\ Deliverable(uiPorts[p], msg)
    /\ CASE msg.type = "chunk" -> OnMindmapChunk(p, msg, parses)
         [] msg.type = "done" -> OnMindmapDone(p, msg, parses)
         [] msg.type = "error" -> parses /\ OnMindmapError(p, msg)
    /\ UNCHANGED << summary, clock >>
    /\ UNCHANGED << gatewayVars, decoderVars, adapterVars, captureVars >>

\* saveCacheData settles, with the data stored or the failure logged, and the
\* done branch of the listener runs to its end.
SaveSettled(p, stored) ==
    /\ uiPorts[p].owner = "mindmap"
    /\ uiPorts[p].saving # Null
    /\ cache' = IF stored THEN [cache EXCEPT !.mindmap = uiPorts[p].saving] ELSE cache
    /\ mindmap' = [mindmap EXCEPT !.updates = @ \o
                       << Update("setCacheLoaded(false)", << >>),
                          Update("setMindmapLoading(false)", << >>) >>]
    /\ uiPorts' = DisconnectUi([uiPorts EXCEPT ![p].saving = Null], p)
    /\ UNCHANGED << summary, clock >>
    /\ UNCHANGED << gatewayVars, decoderVars, adapterVars, captureVars >>

\* React renders MindmapDisplay with the updates queued so far.
RenderMindmap ==
    /\ mindmap.updates # << >>
    /\ mindmap' = RenderedMindmap(mindmap)
    /\ UNCHANGED << summary, uiPorts, clock, cache >>
    /\ UNCHANGED << gatewayVars, decoderVars, adapterVars, captureVars >>

\* Time passes.
Tick ==
    /\ clock + TickMs <= MaxTime
    /\ clock' = clock + TickMs
    /\ UNCHANGED << summary, mindmap, uiPorts, cache >>
    /\ UNCHANGED << gatewayVars, decoderVars, adapterVars, captureVars >>

InitPanel ==
    /\ aiConfig = NoConfig
    /\ ports = {}
    /\ portState = [p \in Ports |-> "none"]
    /\ controller = [p \in Ports |-> 0]
    /\ gens = [p \in Ports |-> << >>]
    /\ events = [p \in Ports |-> << >>]
    /\ DecoderIdle
    /\ AdapterIdle
    /\ PanelIdle
    /\ CaptureIdle

NextPanel ==
    \/ \E connects \in BOOLEAN : GenerateSummary(connects)
    \/ \E p \in 1..Len(uiPorts) : \E msg \in UiEvents : OnSummaryMessage(p, msg)
    \/ RenderSummary
    \/ EffectSummary
    \/ \E connects \in BOOLEAN : GenerateMindmap(connects)
    \/ \E p \in 1..Len(uiPorts) : \E msg \in UiEvents : \E parses \in BOOLEAN :
           OnMindmapMessage(p, msg, parses)
    \/ \E p \in 1..Len(uiPorts) : \E stored \in BOOLEAN : SaveSettled(p, stored)
    \/ RenderMindmap
    \/ Tick

\* The side panel alone, against a gateway that posts any events it may.
SpecPanel == InitPanel /\ [][NextPanel]_vars

(***************************************************************************)
(* The capture of the YouTube subtitle URL                                 *)
(***************************************************************************)

\* How many requests and messages the background script observes.
MaxObserved == 3

\* The requests the browser makes: to the timedtext API with a pot parameter
\* (three ways), without one, with parameters whose name or value only
\* resembles it, to a longer path and to another host.
TimedText == Chars("https://www.youtube.com/api/timedtext")
PotUrls ==
    { TimedText \o Chars("?v=a&pot=x"),
      TimedText \o Chars("?pot=y&v=b"),
      TimedText \o Chars("?v=a&pot") }
OtherUrls ==
    { TimedText \o Chars("?v=a"),
      TimedText \o Chars("?spot=x&v=pot"),
      TimedText,
      TimedText \o Chars("x?pot=x"),
      Chars("https://m.youtube.com/api/timedtext?pot=x") }
RequestUrls == PotUrls \cup OtherUrls

RECURSIVE IndexOfAny(_, _, _)
\* The first position from i on that holds one of the characters, or the one
\* after the end.
IndexOfAny(s, stops, i) ==
    IF i > Len(s) \/ s[i] \in stops THEN i ELSE IndexOfAny(s, stops, i + 1)

RECURSIVE ParamNames(_, _)
\* The names of the parameters of a query string, from position i on.
ParamNames(search, i) ==
    IF i > Len(search) THEN {}
    ELSE LET end == IndexOfAny(search, {"&"}, i)
             pair == SubSeq(search, i, end - 1)
             name == SubSeq(pair, 1, IndexOfAny(pair, {"="}, 1) - 1)
         IN  (IF pair = << >> THEN {} ELSE {name}) \cup ParamNames(search, end + 1)

\* new URL(href) of an https URL with neither credentials nor a port: the
\* members the listener reads.
URL(href) ==
    LET hostStart == Len(Chars("https://")) + 1
        hostEnd == IndexOfAny(href, {"/", "?", "#"}, hostStart)
        pathEnd == IndexOfAny(href, {"?", "#"}, hostEnd)
        searchEnd == IndexOfAny(href, {"#"}, pathEnd)
    IN  [hostname |-> SubSeq(href, hostStart, hostEnd - 1),
         pathname |-> IF pathEnd = hostEnd THEN << "/" >>
                      ELSE SubSeq(href, hostEnd, pathEnd - 1),
         searchParams |-> ParamNames(SubSeq(href, pathEnd + 1, searchEnd - 1), 1)]

\* A searchParams that has every name.
searchParams_hasAny(url, name) == TRUE

\* url.searchParams.has(name).
searchParams_has(url, name) == name \in url.searchParams

\* `urls: ["https://www.youtube.com/api/timedtext*"]`: the requests that the
\* browser hands to the listener.
MatchesFilter(href) == startsWith(href, TimedText)

\* What the observation log holds: a request, the message to the active tab, a
\* runtime message that was answered with this data, or one that got no answer.
Observed(event, data) == [event |-> event, data |-> data]

\* The onBeforeRequest listener's assignment.
Captured(href, slot) ==
    LET url == URL(href)
    IN  IF /\ url.hostname = Chars("www.youtube.com")
           /\ url.pathname = Chars("/api/timedtext")
           /\ searchParams_has(url, Chars("pot"))
        THEN href
        ELSE slot

\* The browser makes a request; when the filter matches, the onBeforeRequest
\* listener runs.  The callback of chrome.tabs.query sends the captured URL to
\* the active tab, if there is one; it reads nothing but the request, so the log
\* takes its message at once.
OnBeforeRequest(href, tab) ==
    LET slot == IF MatchesFilter(href) THEN Captured(href, capturedSubtitleUrl)
                ELSE capturedSubtitleUrl
        captures == MatchesFilter(href) /\ Captured(href, Null) # Null
    IN  /\ Len(replies) < MaxObserved
        /\ tab => captures
        /\ capturedSubtitleUrl' = slot
        /\ replies' = replies \o << Observed("request", href) >>
               \o (IF tab THEN << Observed("SUBTITLE_URL_CAPTURED", href) >> ELSE << >>)
        /\ UNCHANGED << gatewayVars, decoderVars, adapterVars, panelVars >>

\* The runtime.onMessage listener, for the two actions on the captured URL and
\* for an action that is none of its own.
OnRuntimeMessage(action) ==
    /\ Len(replies) < MaxObserved
    /\ capturedSubtitleUrl' =
           IF action = "clearCapturedSubtitleUrl" THEN Null ELSE capturedSubtitleUrl
    /\ replies' = Append(replies,
           Observed(action, IF action = "getCapturedSubtitleUrl" THEN capturedSubtitleUrl
                            ELSE << >>))
    /\ UNCHANGED << gatewayVars, decoderVars, adapterVars, panelVars >>

InitCapture ==
    /\ aiConfig = NoConfig
    /\ ports = {}
    /\ portState = [p \in Ports |-> "none"]
    /\ controller = [p \in Ports |-> 0]
    /\ gens = [p \in Ports |-> << >>]
    /\ events = [p \in Ports |-> << >>]
    /\ DecoderIdle
    /\ AdapterIdle
    /\ PanelIdle
    /\ CaptureIdle

NextCapture ==
    \/ \E href \in RequestUrls : \E tab \in BOOLEAN : OnBeforeRequest(href, tab)
    \/ \E action \in {"getCapturedSubtitleUrl", "clearCapturedSubtitleUrl", "ping"} :
           OnRuntimeMessage(action)

\* The subtitle capture alone.
SpecCapture == InitCapture /\ [][NextCapture]_vars

(***************************************************************************)
(* Properties                                                              *)
(***************************************************************************)

\* What port p was posted for run g, in order, and the posts of some types.
EventsOf(p, g) == SelectSeq(events[p], LAMBDA e : e.gen = g)
Posted(log, g, types) == SelectSeq(log, LAMBDA e : e.gen = g /\ e.type \in types)
TypesOf(p, g) == [i \in 1..Len(EventsOf(p, g)) |-> EventsOf(p, g)[i].type]

\* A run that a start message began, and one whose listener has not returned.
IsStart(gen) == gen.msg.action \in StreamActions
InFlight(gen) == IsStart(gen) /\ gen.pc # "end"

\* A run whose upstream request is active: issued, not yet ended, token not aborted.
Active(gen) == gen.issued /\ gen.pc \in {"fetch", "text", "read"} /\ ~gen.aborted

\* C1: every port has at most one active upstream request, and a run's request is
\* issued only when the controller that was there when its message arrived has
\* been aborted.
C1_AtMostOneActive ==
    \A p \in Ports :
        /\ Cardinality({g \in DOMAIN gens[p] : Active(gens[p][g])}) <= 1
        /\ \A g \in DOMAIN gens[p] :
              gens[p][g].issued /\ gens[p][g].prev # 0
                  => gens[p][gens[p][g].prev].aborted

\* A second request has been issued on a port whose first request was still in
\* flight when the second message arrived.
C1_Witness ==
    \E p \in Ports : \E g \in DOMAIN gens[p] :
        /\ gens[p][g].issued
        /\ gens[p][g].pc = "read"
        /\ gens[p][g].prev # 0
        /\ gens[p][gens[p][g].prev].issued
        /\ gens[p][gens[p][g].prev].pc \in {"fetch", "text", "read"}

\* C2: once a port has been posted an event of a later run, it is posted no chunk,
\* done or error of an earlier run: the posts of a port are in the order of its
\* runs.
C2_NoEventOfSuperseded ==
    \A p \in Ports : \A i, j \in DOMAIN events[p] :
        i < j => events[p][i].gen <= events[p][j].gen

\* The first run posted a chunk and neither done nor error, a second start came,
\* and the second run has posted an event.
C2_Witness ==
    \E p \in Ports :
        /\ Len(gens[p]) >= 2
        /\ IsStart(gens[p][1]) /\ IsStart(gens[p][2])
        /\ Posted(events[p], 1, {"chunk"}) # << >>
        /\ Posted(events[p], 1, {"done", "error"}) = << >>
        /\ EventsOf(p, 2) # << >>

\* C3: in no step is a chunk or a done posted for a run whose token is aborted.
C3_NoChunkOrDoneAfterAbort ==
    [][\A p \in Ports : \A g \in DOMAIN gens[p] :
          gens[p][g].aborted
              => Posted(events'[p], g, {"chunk", "done"})
                     = Posted(events[p], g, {"chunk", "done"})]_vars

\* A run was aborted in the middle of its stream, after a chunk, with lines of
\* the body still to come.
C3_Witness ==
    \E p \in Ports : \E g \in DOMAIN gens[p] :
        /\ gens[p][g].aborted
        /\ gens[p][g].pc = "read"
        /\ gens[p][g].pos > 0
        /\ gens[p][g].pos < Len(Responses[gens[p][g].resp].body)
        /\ Posted(events[p], g, {"chunk"}) # << >>

\* C4: in no step is an error posted for a run whose token is aborted.
C4_NoErrorAfterAbort ==
    [][\A p \in Ports : \A g \in DOMAIN gens[p] :
          gens[p][g].aborted
              => Posted(events'[p], g, {"error"}) = Posted(events[p], g, {"error"})]_vars

\* An aborted run whose request had been issued has ended, by the rejection of
\* fetch or of a read, and no error was posted for it.
C4_Witness ==
    \E p \in Ports : \E g \in DOMAIN gens[p] :
        /\ gens[p][g].aborted
        /\ gens[p][g].issued
        /\ gens[p][g].pc = "end"
        /\ Posted(events[p], g, {"error"}) = << >>

\* C5: the step that disconnects a port clears its controller and leaves every
\* run in flight with an aborted token; on a disconnected port no read loop is
\* given further bytes and nothing more is posted.
C5_DisconnectCancels ==
    [][\A p \in Ports :
          /\ portState[p] = "open" /\ portState'[p] = "closed"
                => /\ controller'[p] = 0
                   /\ \A g \in DOMAIN gens[p] :
                         InFlight(gens[p][g]) => gens'[p][g].aborted
          /\ portState[p] = "closed"
                => /\ events'[p] = events[p]
                   /\ \A g \in DOMAIN gens[p] : gens'[p][g].pos <= gens[p][g].pos]_vars

\* A port was disconnected while its latest run was in the middle of its stream.
C5_Witness ==
    \E p \in Ports :
        /\ portState[p] = "closed"
        /\ gens[p] # << >>
        /\ gens[p][Len(gens[p])].pc = "read"
        /\ gens[p][Len(gens[p])].pos > 0
        /\ gens[p][Len(gens[p])].aborted

\* C6: a run that finds no configuration, or no non-empty key for the configured
\* provider, issues no request and ends; unless it was cancelled, it is posted
\* exactly one error and nothing else.
C6_NotConfiguredOneError ==
    \A p \in Ports : \A g \in DOMAIN gens[p] :
        LET gen == gens[p][g]
            Unkeyed == gen.config = NoConfig \/ ApiKeyOf(gen.config) \in {NoValue, ""}
        IN  (gen.config # Unread /\ Unkeyed)
                => /\ ~gen.issued
                   /\ gen.request = NoRequest
                   /\ gen.pc = "end"
                   /\ ~gen.aborted => TypesOf(p, g) = << "error" >>

\* A run under a stored configuration without a key for its provider has ended
\* with its error.
C6_Witness ==
    \E p \in Ports : \E g \in DOMAIN gens[p] :
        /\ gens[p][g].config \notin {Unread, NoConfig}
        /\ ApiKeyOf(gens[p][g].config) \in {NoValue, ""}
        /\ ~gens[p][g].aborted
        /\ TypesOf(p, g) = << "error" >>

\* C7: a run whose configured provider is none of openai, openai-compatible,
\* gemini, claude and openrouter issues no request and ends; unless it was
\* cancelled, it is posted exactly one error and nothing else.
C7_UnregisteredProviderError ==
    \A p \in Ports : \A g \in DOMAIN gens[p] :
        LET gen == gens[p][g]
            Registered == {"openai", "openai-compatible", "gemini", "claude", "openrouter"}
        IN  (gen.config \notin {Unread, NoConfig} /\ gen.config.provider \notin Registered)
                => /\ ~gen.issued
                   /\ gen.request = NoRequest
                   /\ gen.pc = "end"
                   /\ ~gen.aborted => TypesOf(p, g) = << "error" >>

\* A run under a configuration that names an unregistered provider and stores a
\* key for it has ended with the error that names the provider.
C7_Witness ==
    \E p \in Ports : \E g \in DOMAIN gens[p] :
        /\ gens[p][g].config \notin {Unread, NoConfig}
        /\ gens[p][g].config.provider = "mistral"
        /\ ApiKeyOf(gens[p][g].config) = "k"
        /\ EventsOf(p, g) # << >>
        /\ EventsOf(p, g)[1].type = "error"
        /\ EventsOf(p, g)[1].error = UnsupportedError("mistral")

\* C8: when the reads of a stream have reached its end, however its bytes were
\* split into reads, the chunks handed to onChunk are those of one read of the
\* whole stream.
C8_SplitInvariant ==
    dStream # 0 /\ dPos = Len(EventStreams[dStream].body)
        => dOut = DecodeRead(EventStreams[dStream].dialect, NewDecoder,
                             EventStreams[dStream].body).chunks

\* A stream has been read to its end in reads that ended inside a character,
\* right after a newline and in the middle of a line, and deltas were emitted.
C8_Witness ==
    /\ dStream # 0
    /\ dPos = Len(EventStreams[dStream].body)
    /\ dSplits = {"character", "newline", "line"}
    /\ dOut # << >>

\* The responses whose body has a data line whose payload is no JSON.
WithInvalidPayload ==
    {r \in DOMAIN Responses :
        /\ Responses[r].body # NoBody
        /\ \E line \in {split(Utf8Decode(Responses[r].body, FALSE).text)[k] :
                         k \in 1..Len(split(Utf8Decode(Responses[r].body, FALSE).text))} :
              /\ startsWith(trim(line), DataPrefix)
              /\ slice(trim(line), Len(DataPrefix)) # DoneSentinel
              /\ ~JSON_parse(slice(trim(line), Len(DataPrefix))).ok}

\* C9: a run that reads a successful stream with a payload that is no JSON is
\* posted the stream's deltas in order, those after the bad line included; an
\* error is posted only for a transport failure; when the stream ends, done is
\* posted after all the deltas.
C9_InvalidPayloadSkipped ==
    \A p \in Ports : \A g \in DOMAIN gens[p] :
        LET gen == gens[p][g]
            ev == EventsOf(p, g)
            chunks == Posted(events[p], g, {"chunk"})
            deltas == Responses[gen.resp].deltas
        IN  (gen.resp \in WithInvalidPayload /\ Responses[gen.resp].status = 200)
                => /\ \A i \in DOMAIN ev : ev[i].type = "error" => ev[i].error = NetworkError
                   /\ Len(chunks) <= Len(deltas)
                   /\ \A i \in DOMAIN chunks :
                         StreamChunk(chunks[i].content, chunks[i].reasoning) = deltas[i]
                   /\ (\E i \in DOMAIN ev : ev[i].type = "done")
                         => Len(chunks) = Len(deltas) /\ ev[Len(ev)].type = "done"
                   /\ (gen.pc = "end" /\ ~gen.aborted /\ Posted(events[p], g, {"error"}) = << >>)
                         => ev # << >> /\ ev[Len(ev)].type = "done"

\* A run has read to its end a stream that holds a payload that is no JSON
\* between two deltas, and was posted both deltas and then done.
C9_Witness ==
    \E p \in Ports : \E g \in DOMAIN gens[p] :
        /\ gens[p][g].resp \in WithInvalidPayload
        /\ Len(Responses[gens[p][g].resp].deltas) = 2
        /\ TypesOf(p, g) = << "chunk", "chunk", "done" >>

C11_OneTerminalEvent ==
    \A p \in Ports : \A g \in DOMAIN gens[p] :
        LET t == TypesOf(p, g)
        IN  \A i \in 1..Len(t) : t[i] \in {"done", "error"} => i = Len(t)

\* A run has ended with an error after chunks of it had been posted: a read
\* failed in the middle of the stream.
C11_Witness ==
    \E p \in Ports : \E g \in DOMAIN gens[p] :
        LET t == TypesOf(p, g)
        IN  /\ gens[p][g].pc = "end"
            /\ Len(t) >= 2
            /\ t[1] = "chunk"
            /\ t[Len(t)] = "error"
            /\ ~gens[p][g].aborted

\* C12: no run sends more than one HTTP request upstream, however it ends, and a
\* message that starts nothing sends none.
C12_NoRetry ==
    \A p \in Ports : \A g \in DOMAIN gens[p] :
        /\ gens[p][g].requests <= 1
        /\ ~IsStart(gens[p][g]) => gens[p][g].requests = 0

\* A run has sent its one request, the upstream has refused it with status 401,
\* and the run has ended with the error.
C12_Witness ==
    \E p \in Ports : \E g \in DOMAIN gens[p] :
        /\ gens[p][g].pc = "end"
        /\ gens[p][g].requests = 1
        /\ TypesOf(p, g) = << "error" >>
        /\ gens[p][g].resp # 0
        /\ Responses[gens[p][g].resp].status = 401

\* The deltas of the payload lines that are complete within the first `to` bytes
\* of the body of response r, in the order of the lines, for every offset at
\* which a read of r may end.
DeltasUpTo ==
    [r \in DOMAIN Responses |->
        [to \in {0} \cup ReadEnds(r, 0) |->
            IF Responses[r].body = NoBody THEN << >>
            ELSE DecodeRead(Responses[r].dialect, NewDecoder,
                            SubSeq(Responses[r].body, 1, to)).chunks]]

\* The deltas of all payload lines of the body of response r, in line order.
LineDeltas(r) == DeltasUpTo[r][Len(Responses[r].body)]

\* The deltas that the chunk posts of run g on port p carry, in the order posted.
ChunksOf(p, g) ==
    LET chunks == Posted(events[p], g, {"chunk"})
    IN  [i \in DOMAIN chunks |-> StreamChunk(chunks[i].content, chunks[i].reasoning)]

\* C13: at every moment the chunks posted for a run are, in the order posted, the
\* first deltas of the payload lines of the stream it reads, in line order: no
\* two deltas of a run are ever posted in another order than their lines have.
C13_ChunksInLineOrder ==
    \A p \in Ports : \A g \in DOMAIN gens[p] :
        LET posted == ChunksOf(p, g)
            r == gens[p][g].resp
        IN  IF r = 0 THEN posted = << >>
            ELSE /\ Len(posted) <= Len(LineDeltas(r))
                 /\ posted = SubSeq(LineDeltas(r), 1, Len(posted))

\* A run was posted two different deltas and still waits for the end of the
\* stream.
C13_Witness ==
    \E p \in Ports : \E g \in DOMAIN gens[p] :
        /\ gens[p][g].pc = "read"
        /\ Len(ChunksOf(p, g)) = 2
        /\ ChunksOf(p, g)[1] # ChunksOf(p, g)[2]

\* C14: a run whose token is not aborted has been posted, one chunk per delta and
\* in order, exactly the deltas of the payload lines that are complete in the
\* bytes it has read, each on an open port; a run that was posted done has been
\* posted the deltas of all payload lines of its stream.
C14_EveryDeltaPosted ==
    \A p \in Ports : \A g \in DOMAIN gens[p] :
        LET gen == gens[p][g]
            chunks == Posted(events[p], g, {"chunk"})
        IN  /\ (gen.pc = "read" /\ ~gen.aborted)
                  => /\ ChunksOf(p, g) = DeltasUpTo[gen.resp][gen.pos]
                     /\ \A i \in DOMAIN chunks : chunks[i].delivered
            /\ Posted(events[p], g, {"done"}) # << >>
                  => ChunksOf(p, g) = LineDeltas(gen.resp)

\* A run that is not cancelled has read a stream with a delta of content only
\* and a delta of reasoning only to its end, and was posted both and then done.
C14_Witness ==
    \E p \in Ports : \E g \in DOMAIN gens[p] :
        /\ ~gens[p][g].aborted
        /\ TypesOf(p, g) = << "chunk", "chunk", "done" >>
        /\ ChunksOf(p, g)[1].reasoning = JNull
        /\ ChunksOf(p, g)[2].content = JNull
        /\ \A i \in DOMAIN EventsOf(p, g) : EventsOf(p, g)[i].delivered

\* C15: for every payload, the loop hands the adapter's delta to onChunk exactly
\* when its content or its reasoning is there (not null); a field that is there
\* is never the empty string, so a payload whose fields are missing or empty
\* gives no chunk and every chunk has a field that is not empty.
C15_ChunkIffPresent ==
    aResult.method = "parseStreamChunk"
        => LET delta == aResult.value
           IN  /\ aResult.emitted <=> (delta.content # JNull \/ delta.reasoning # JNull)
               /\ delta.content \notin {Undefined, JStr(<< >>)}
               /\ delta.reasoning \notin {Undefined, JStr(<< >>)}

\* The OpenAI adapter has parsed a payload whose delta has the empty string for
\* content, and the loop has not handed the delta to onChunk.
C15_Witness ==
    /\ aCall.adapter = "OpenAIProvider"
    /\ aCall.value = Nest(<< "choices", "[0]", "delta", "content" >>, JStr(<< >>))
    /\ aResult.method = "parseStreamChunk"
    /\ ~aResult.emitted

\* C16: a run that has read the body of a successful response to its end,
\* without a failure and without being cancelled, was posted done once, and the
\* done is the last post of the run, after the chunk of every delta.
C16_DoneAfterChunks ==
    \A p \in Ports : \A g \in DOMAIN gens[p] :
        LET gen == gens[p][g]
            ev == EventsOf(p, g)
        IN  (/\ gen.pc = "end"
             /\ ~gen.aborted
             /\ gen.resp # 0
             /\ Responses[gen.resp].status = 200
             /\ Responses[gen.resp].body # NoBody
             /\ Posted(events[p], g, {"error"}) = << >>)
                => /\ Len(Posted(events[p], g, {"done"})) = 1
                   /\ ev[Len(ev)].type = "done"
                   /\ Len(ev) = Len(LineDeltas(gen.resp)) + 1

\* A run has read a Claude stream, whose first and last events carry no delta,
\* to its end and was posted the chunk of the one delta and then done.
C16_Witness ==
    \E p \in Ports : \E g \in DOMAIN gens[p] :
        /\ gens[p][g].pc = "end"
        /\ ~gens[p][g].aborted
        /\ gens[p][g].resp # 0
        /\ Responses[gens[p][g].resp].dialect = "ClaudeProvider"
        /\ TypesOf(p, g) = << "chunk", "done" >>

\* C17: whatever became of the runs before it, a run that a start message began
\* on an open port has a token of its own, aborted only by a later message or
\* by the disconnect; while it is the newest run and has not ended, the handle
\* of the port is its own; once it is past the configuration checks with its
\* token intact it has sent its one request; every post made for it while its
\* token is intact reaches the client; and when it has ended with its token
\* intact it was posted done or error.
C17_SessionReusable ==
    \A p \in Ports : \A g \in DOMAIN gens[p] :
        LET gen == gens[p][g]
            ev == EventsOf(p, g)
        IN  IsStart(gen)
                => /\ gen.aborted => (g < Len(gens[p]) \/ portState[p] = "closed")
                   /\ (g = Len(gens[p]) /\ portState[p] = "open" /\ gen.pc # "end")
                         => controller[p] = g
                   /\ (gen.pc \in {"fetch", "text", "read"} /\ ~gen.aborted)
                         => gen.requests = 1
                   /\ ~gen.aborted => \A i \in DOMAIN ev : ev[i].delivered
                   /\ (gen.pc = "end" /\ ~gen.aborted)
                         => ev # << >> /\ ev[Len(ev)].type \in {"done", "error"}

\* On one open port a second start has cancelled the first run after the first
\* was posted a chunk, and the second run has sent its own request and was
\* posted chunks and then done.
C17_Witness ==
    \E p \in Ports :
        /\ portState[p] = "open"
        /\ Len(gens[p]) = 2
        /\ IsStart(gens[p][1]) /\ gens[p][1].aborted
        /\ TypesOf(p, 1) = << "chunk" >>
        /\ IsStart(gens[p][2]) /\ ~gens[p][2].aborted
        /\ gens[p][2].requests = 1
        /\ TypesOf(p, 2) = << "chunk", "chunk", "done" >>

\* C18: a step in which a port is connected or disconnected, receives a message,
\* or has the token of one of its runs aborted leaves every other port as it
\* was: the tokens and the records of its runs, its handle, and the posts made
\* to it.
C18_SessionsIndependent ==
    [][\A p \in Ports :
          (\/ portState'[p] # portState[p]
           \/ Len(gens'[p]) # Len(gens[p])
           \/ \E g \in DOMAIN gens[p] : gens'[p][g].aborted # gens[p][g].aborted)
              => \A q \in Ports \ {p} :
                    /\ gens'[q] = gens[q]
                    /\ controller'[q] = controller[q]
                    /\ events'[q] = events[q]
                    /\ portState'[q] = portState[q]]_vars

\* One port was disconnected while its run was reading, which aborted the run's
\* token, and the run of another port, whose token is intact, has read its
\* stream to the end and was posted done.
C18_Witness ==
    \E p \in Ports : \E q \in Ports \ {p} :
        /\ portState[p] = "closed"
        /\ Len(gens[p]) = 1
        /\ gens[p][1].aborted
        /\ TypesOf(p, 1) = << "chunk" >>
        /\ portState[q] = "open"
        /\ Len(gens[q]) = 1
        /\ ~gens[q][1].aborted
        /\ TypesOf(q, 1) = << "chunk", "done" >>

\* C19: called with any JSON value, parseStreamChunk of every adapter gives a
\* delta, a content and a reasoning that are each null or a value, and throws
\* nothing; the Claude adapter gives null for both on every value whose type is
\* not content_block_delta.
C19_ParseStreamChunkTotal ==
    aResult.method = "parseStreamChunk"
        => /\ aResult.value # TypeError
           /\ DOMAIN aResult.value = {"content", "reasoning"}
           /\ aResult.value.content \notin {TypeError, Undefined}
           /\ aResult.value.reasoning \notin {TypeError, Undefined}
           /\ (/\ aCall.adapter = "ClaudeProvider"
               /\ GetProp(aCall.value, "type") # JStr(Chars("content_block_delta")))
                 => aResult.value = StreamChunk(JNull, JNull)

\* The Claude adapter was called with a message_start event that has a delta
\* with a text, and gave a delta without content and without reasoning.
C19_Witness ==
    /\ aCall.adapter = "ClaudeProvider"
    /\ aCall.value = ClaudeEvent("message_start", JStr(Chars("hi")))
    /\ aResult.method = "parseStreamChunk"
    /\ aResult.value = StreamChunk(JNull, JNull)

\* The path extractContent of an adapter reads in a response.
ExtractPath(adapter) ==
    IF adapter = "OpenAIProvider" THEN << "choices", "[0]", "message", "content" >>
    ELSE IF adapter = "GeminiProvider"
         THEN << "candidates", "[0]", "content", "parts", "[0]", "text" >>
    ELSE << "content", "[0]", "text" >>

RECURSIVE Walk(_, _)
\* What is at the end of a path in a value, undefined where the path breaks off.
Walk(x, path) ==
    IF path = << >> THEN x
    ELSE Walk(IF Head(path) = "[0]" THEN GetIndex0(x) ELSE GetProp(x, Head(path)),
              Tail(path))

\* C20: called with a response object in which the path it reads is absent, the
\* top-level array or the nested parts array included, extractContent of every
\* adapter returns the empty string and throws nothing.
C20_ExtractContentEmpty ==
    (/\ aResult.method = "extractContent"
     /\ aCall.value.t = "object"
     /\ Walk(aCall.value, ExtractPath(aCall.adapter)) = Undefined)
        => aResult.value = JStr(<< >>)

\* Text `t` occurs in text `s`.
Contains(s, t) ==
    \E i \in 1..(Len(s) - Len(t) + 1) : SubSeq(s, i, i + Len(t) - 1) = t

\* Text `s` ends with text `t`.
EndsWith(s, t) ==
    Len(s) >= Len(t) /\ SubSeq(s, Len(s) - Len(t) + 1, Len(s)) = t

\* The request asks for streaming output in the adapter's dialect.
AsksStreaming(adapter, request) ==
    IF adapter = "GeminiProvider"
    THEN Contains(request.url, ":streamGenerateContent?") /\ EndsWith(request.url, "&alt=sse")
    ELSE request.body.stream = TRUE

\* The request asks for a one-shot answer in the adapter's dialect.
AsksOneShot(adapter, request) ==
    IF adapter = "GeminiProvider"
    THEN /\ Contains(request.url, ":generateContent?")
         /\ ~Contains(request.url, "streamGenerateContent")
         /\ ~Contains(request.url, "alt=sse")
    ELSE request.body.stream = FALSE

\* C21: a request built with stream = true asks for streaming output in the
\* adapter's dialect (body field stream for the OpenAI-compatible and Claude
\* adapters, action streamGenerateContent with alt=sse for Gemini), one built with
\* stream = false asks for a one-shot answer, and the request streamAI builds
\* asks for streaming output.
C21_StreamToggle ==
    /\ aResult.method = "buildRequestConfig"
          => IF aCall.stream THEN AsksStreaming(aCall.adapter, aResult.value)
             ELSE AsksOneShot(aCall.adapter, aResult.value)
    /\ aResult.method = "streamAI"
          => AsksStreaming(ProviderOf(aCall.config.provider), aResult.value)

\* streamAI built a request for the Gemini adapter.
C21_Witness ==
    /\ aResult.method = "streamAI"
    /\ ProviderOf(aCall.config.provider) = "GeminiProvider"
    /\ AsksStreaming("GeminiProvider", aResult.value)

\* C22: the Claude request holds the system prompt in its system field and the
\* user prompt as its only message; the Gemini request holds one text, which is
\* the user prompt when the system prompt is empty and else the system prompt,
\* a blank line and the user prompt, each once and nothing more.
C22_PromptsPlaced ==
    aResult.method = "buildRequestConfig" =>
        LET body == aResult.value.body
            sys == aCall.systemPrompt
            user == aCall.userPrompt
        IN  /\ aCall.adapter = "ClaudeProvider"
                  => /\ body.system = sys
                     /\ body.messages = << [role |-> "user", content |-> user] >>
            /\ aCall.adapter = "GeminiProvider"
                  => /\ Len(body.contents) = 1
                     /\ Len(body.contents[1].parts) = 1
                     /\ LET text == body.contents[1].parts[1].text
                        IN  /\ sys = "" => text = user
                            /\ sys # ""
                                  => /\ Len(text) = Len(sys) + 2 + Len(user)
                                     /\ SubSeq(text, 1, Len(sys)) = sys
                                     /\ SubSeq(text, Len(sys) + 1, Len(sys) + 2) = "\n\n"
                                     /\ EndsWith(text, user)

\* A Gemini request was built from a system prompt and a user prompt.
C22_Witness ==
    /\ aResult.method = "buildRequestConfig"
    /\ aCall.adapter = "GeminiProvider"
    /\ aCall.systemPrompt = "S"
    /\ aCall.userPrompt = "U"
    /\ aResult.value.body.contents[1].parts[1].text = "S\n\nU"

\* The model name the request carries: the body's model field, and for Gemini the
\* part of the URL before the action.
CarriesModel(adapter, request, name) ==
    IF adapter = "GeminiProvider"
    THEN Contains(request.url, "/" \o name \o ":streamGenerateContent?")
    ELSE request.body.model = name

\* C24: the request streamAI builds carries customModel when the configuration
\* holds a non-empty customModel, and model otherwise.
C24_CustomModelFirst ==
    aResult.method = "streamAI" =>
        LET config == aCall.config
            present == config.customModel # NoValue /\ config.customModel # ""
        IN  CarriesModel(ProviderOf(config.provider), aResult.value,
                         IF present THEN config.customModel ELSE config.model)

\* streamAI built a request from a configuration that holds both a model and a
\* customModel, and the request carries the customModel.
C24_Witness ==
    /\ aResult.method = "streamAI"
    /\ aCall.config.customModel = "my-model"
    /\ aCall.config.model = "gpt-x"
    /\ aResult.value.body.model = "my-model"

\* What of a request shows the adapter that built it and where it is sent: the
\* URL, the headers and the fields of the body.
Dialect(request) ==
    [url |-> request.url, headers |-> request.headers, fields |-> DOMAIN request.body]

\* C23: two runs that issued a request under the same configuration sent it to
\* the same endpoint in the same adapter's dialect, whatever their messages.
C23_AdapterByConfigOnly ==
    \A p1 \in Ports, p2 \in Ports :
        \A g1 \in DOMAIN gens[p1], g2 \in DOMAIN gens[p2] :
            (/\ gens[p1][g1].issued
             /\ gens[p2][g2].issued
             /\ gens[p1][g1].config = gens[p2][g2].config)
                => Dialect(gens[p1][g1].request) = Dialect(gens[p2][g2].request)

\* Two runs issued a request under one configuration, for messages of different
\* actions, one of which carries a provider field that names another adapter.
C23_Witness ==
    \E p \in Ports : \E g1 \in DOMAIN gens[p], g2 \in DOMAIN gens[p] :
        /\ gens[p][g1].issued
        /\ gens[p][g2].issued
        /\ gens[p][g1].config = gens[p][g2].config
        /\ gens[p][g1].msg.action # gens[p][g2].msg.action
        /\ "provider" \in DOMAIN gens[p][g1].msg
        /\ ProviderOf(gens[p][g1].msg.provider) # ProviderOf(gens[p][g1].config.provider)
        /\ gens[p][g1].request.url = gens[p][g2].request.url

\* Where a run is, given its record and the log of its port: Aborted once its
\* token is aborted; else Completed or Failed once done or error was posted; else
\* Idle until streamAI has handed a request to fetch, Requesting until fetch gave
\* a response with a body to read (which includes reading the text of a response
\* that is not ok), Streaming while the read loop runs. A message that starts
\* nothing is no generation.
PhaseOf(gen, log, g) ==
    IF ~IsStart(gen) THEN "None"
    ELSE IF gen.aborted THEN "Aborted"
    ELSE IF Posted(log, g, {"done"}) # << >> THEN "Completed"
    ELSE IF Posted(log, g, {"error"}) # << >> THEN "Failed"
    ELSE IF gen.pc \in {"prompt", "getConfig"} THEN "Idle"
    ELSE IF gen.pc \in {"fetch", "text"} THEN "Requesting"
    ELSE IF gen.pc = "read" THEN "Streaming"
    ELSE "Returned"

TerminalPhases == {"Completed", "Failed", "Aborted"}

\* The transitions of the state machine as stated.
StatedTransitions ==
    { << "Idle", "Requesting" >>, << "Requesting", "Streaming" >>,
      << "Streaming", "Completed" >>, << "Streaming", "Failed" >>,
      << "Requesting", "Failed" >>,
      << "Idle", "Aborted" >>, << "Requesting", "Aborted" >>, << "Streaming", "Aborted" >> }

\* What a step does to the runs of every port, for a set of transitions: a run
\* begins Idle, changes phase along a transition only, is posted a chunk only
\* while Streaming on a response that is ok and has a body, and in a terminal
\* phase keeps its phase and is posted nothing.
FollowsOnly(transitions) ==
    \A p \in Ports : \A g \in DOMAIN gens'[p] :
        IF g \notin DOMAIN gens[p]
        THEN PhaseOf(gens'[p][g], events'[p], g) \in {"Idle", "None"}
        ELSE LET a == PhaseOf(gens[p][g], events[p], g)
                 b == PhaseOf(gens'[p][g], events'[p], g)
             IN  /\ a = b \/ << a, b >> \in transitions
                 /\ a \in TerminalPhases \cup {"None"}
                       => Posted(events'[p], g, {"chunk", "done", "error"})
                             = Posted(events[p], g, {"chunk", "done", "error"})
                 /\ Posted(events'[p], g, {"chunk"}) # Posted(events[p], g, {"chunk"})
                       => /\ a = "Streaming"
                          /\ gens[p][g].resp # 0
                          /\ Responses[gens[p][g].resp].status \in 200..299
                          /\ Responses[gens[p][g].resp].body # NoBody

SentinelEnd ==
    [r \in DOMAIN Responses |->
        LET body == Responses[r].body
            line == Utf8Encode(Chars("data: [DONE]\n"))
            at == {i \in 1..(Len(body) - Len(line) + 1) :
                      SubSeq(body, i, i + Len(line) - 1) = line}
        IN  IF body = NoBody \/ at = {} THEN 0
            ELSE (CHOOSE i \in at : \A j \in at : i <= j) + Len(line) - 1]

\* C26: a run that has read the sentinel line and whose token is intact is still
\* reading, with chunks as its only events and no more of them than the stream has
\* deltas; once done is posted it was posted every delta of the stream, those of
\* the lines after the sentinel too, and nothing else before done.
C26_SentinelIsNoEnd ==
    \A p \in Ports : \A g \in DOMAIN gens[p] :
        LET gen == gens[p][g]
        IN  (/\ gen.resp # 0
             /\ SentinelEnd[gen.resp] > 0
             /\ ~gen.aborted)
                => /\ (gen.pc = "read" /\ gen.pos >= SentinelEnd[gen.resp])
                         => /\ Posted(events[p], g, {"done", "error"}) = << >>
                            /\ Len(EventsOf(p, g)) <= Len(Responses[gen.resp].deltas)
                   /\ Posted(events[p], g, {"done"}) # << >>
                         => /\ ChunksOf(p, g) = Responses[gen.resp].deltas
                            /\ Len(EventsOf(p, g)) = Len(Responses[gen.resp].deltas) + 1
                            /\ EventsOf(p, g)[Len(EventsOf(p, g))].type = "done"

\* A run has read a body past its sentinel line, which other data lines follow,
\* was posted the delta of a line after the sentinel, and is still reading: no
\* done was posted.
C26_Witness ==
    \E p \in Ports : \E g \in DOMAIN gens[p] :
        LET gen == gens[p][g]
        IN  /\ gen.resp # 0
            /\ SentinelEnd[gen.resp] > 0
            /\ ~gen.aborted
            /\ gen.pc = "read"
            /\ gen.pos >= SentinelEnd[gen.resp]
            /\ Len(ChunksOf(p, g)) = 2
            /\ ChunksOf(p, g)[2] = StreamChunk(JNull, JStr(Chars("r")))
            /\ Posted(events[p], g, {"done"}) = << >>

\* For every response with a body, the text after the last newline of the body.
ResidualOf ==
    [r \in DOMAIN Responses |->
        IF Responses[r].body = NoBody THEN << >>
        ELSE LET lines == split(Utf8Decode(Responses[r].body, FALSE).text)
             IN  lines[Len(lines)]]

\* C27: when a run whose token is intact has read the whole body and text is left
\* in its buffer, the step that ends the run posts one event and no chunk: done,
\* or the transport's error when the last read fails instead of giving the end.
C27_ResidualDropped ==
    [][\A p \in Ports : \A g \in DOMAIN gens[p] :
          LET gen == gens[p][g]
          IN  (/\ gen.pc = "read"
               /\ ~gen.aborted
               /\ gen.pos = Len(Responses[gen.resp].body)
               /\ gen.dec.buffer # << >>
               /\ gens'[p][g] # gen
               /\ ~gens'[p][g].aborted)
                  => /\ gen.dec.buffer = ResidualOf[gen.resp]
                     /\ gens'[p][g].pc = "end"
                     /\ \/ events'[p] = Append(events[p], DoneEvent(g) @@ [delivered |-> TRUE])
                        \/ events'[p] = Append(events[p], ErrorEvent(g, NetworkError)
                                                          @@ [delivered |-> TRUE])]_vars

\* A run read a body whose last line is a data line with a delta and has no
\* newline, and ended with done after the two chunks of the lines before it.
C27_Witness ==
    \E p \in Ports : \E g \in DOMAIN gens[p] :
        LET gen == gens[p][g]
        IN  /\ gen.resp # 0
            /\ ProcessLine(Responses[gen.resp].dialect, ResidualOf[gen.resp])
                  = << StreamChunk(JStr(Chars("z")), JNull) >>
            /\ ~gen.aborted
            /\ gen.pc = "end"
            /\ TypesOf(p, g) = << "chunk", "chunk", "done" >>

\* The done and error events of run g that port p delivered to its client.
Terminals(p, g) ==
    SelectSeq(events[p], LAMBDA e : e.gen = g /\ e.type \in {"done", "error"} /\ e.delivered)

\* C28: when every awaited promise settles, a run that a start message began
\* comes to have its token aborted (its port was disconnected or got another
\* message) or to have delivered one done or error event, and no run ever
\* delivers more than one of them.
C28_EventuallyTerminal ==
    /\ [](\A p \in Ports : \A g \in DOMAIN gens[p] : Len(Terminals(p, g)) <= 1)
    /\ \A p \in Ports : \A g \in 1..MaxGens :
          (g \in DOMAIN gens[p] /\ IsStart(gens[p][g]))
             ~> (g \in DOMAIN gens[p]
                 /\ (gens[p][g].aborted \/ Len(Terminals(p, g)) = 1))

\* A run whose token is intact got a response, was delivered a chunk, and when a
\* later read failed was delivered the one error.
C28_Witness ==
    \E p \in Ports : \E g \in DOMAIN gens[p] :
        /\ IsStart(gens[p][g])
        /\ ~gens[p][g].aborted
        /\ TypesOf(p, g) = << "chunk", "error" >>
        /\ Len(Terminals(p, g)) = 1

\* C29: the controller of a port is the run whose listener has not returned and
\* whose token is intact, whenever there is one (with its request issued or not);
\* and the controller of a port changes only when the port is disconnected, when
\* the port gets a message, which makes the new run the controller, or when the
\* run that is the controller is posted done or error: the done or error of a
\* run never clears a controller that is another run.
C29_HandleIsOwn ==
    /\ [](\A p \in Ports : \A g \in DOMAIN gens[p] :
             (InFlight(gens[p][g]) /\ ~gens[p][g].aborted) => controller[p] = g)
    /\ [][\A p \in Ports :
             (controller[p] # 0 /\ controller'[p] # controller[p])
                => \/ portState[p] = "open" /\ portState'[p] = "closed"
                   \/ /\ Len(gens'[p]) = Len(gens[p]) + 1
                      /\ controller'[p] = Len(gens'[p])
                   \/ /\ controller'[p] = 0
                      /\ Len(Posted(events'[p], controller[p], {"done", "error"}))
                            = Len(Posted(events[p], controller[p], {"done", "error"})) + 1]_vars

\* The first run of a port was superseded and its fetch has rejected, which its
\* error callback kept to itself; the second run has its request in flight and is
\* the controller.
C29_Witness ==
    \E p \in Ports :
        /\ Len(gens[p]) = 2
        /\ gens[p][1].aborted
        /\ gens[p][1].issued
        /\ gens[p][1].pc = "end"
        /\ EventsOf(p, 1) = << >>
        /\ Active(gens[p][2])
        /\ controller[p] = 2

\* C30: a message whose action starts no generation aborts the controller the
\* port had, makes a new token the controller and posts nothing; and at no time
\* has such a message a request issued or an event posted.
C30_UnknownActionStillAborts ==
    /\ [](\A p \in Ports : \A g \in DOMAIN gens[p] :
             ~IsStart(gens[p][g])
                => /\ gens[p][g].requests = 0
                   /\ ~gens[p][g].issued
                   /\ gens[p][g].request = NoRequest
                   /\ EventsOf(p, g) = << >>)
    /\ [][\A p \in Ports :
             (/\ Len(gens'[p]) = Len(gens[p]) + 1
              /\ ~IsStart(gens'[p][Len(gens'[p])]))
                => /\ controller[p] # 0 => gens'[p][controller[p]].aborted
                   /\ controller'[p] = Len(gens'[p])
                   /\ ~gens'[p][Len(gens'[p])].aborted
                   /\ events'[p] = events[p]]_vars

\* A message whose action starts nothing arrived while the port's run was in the
\* middle of its stream: the run's token is aborted and the message's token is
\* the controller.
C30_Witness ==
    \E p \in Ports :
        /\ Len(gens[p]) = 2
        /\ gens[p][1].pc = "read"
        /\ gens[p][1].pos > 0
        /\ gens[p][1].aborted
        /\ gens[p][2].msg.action \notin StreamActions
        /\ controller[p] = 2

\* For every response with a body, the complete lines of the body, and those of
\* them that after trimming start with "data: ".
CompleteLines ==
    [r \in DOMAIN Responses |->
        IF Responses[r].body = NoBody THEN << >>
        ELSE LET lines == split(Utf8Decode(Responses[r].body, FALSE).text)
             IN  SubSeq(lines, 1, Len(lines) - 1)]

DataLines ==
    [r \in DOMAIN Responses |->
        SelectSeq(CompleteLines[r],
                  LAMBDA line : /\ Len(trim(line)) >= 6
                                /\ SubSeq(trim(line), 1, 6) = Chars("data: "))]

\* C31: a run whose token is intact is posted no more chunks than the lines that
\* start with "data: " carry, at its done exactly the deltas of those lines, and
\* no error but the transport's: the other lines of the body give no event and
\* no error.
C31_OnlyDataLines ==
    \A p \in Ports : \A g \in DOMAIN gens[p] :
        LET gen == gens[p][g]
            fromData == ProcessLines(Responses[gen.resp].dialect, DataLines[gen.resp])
        IN  (/\ gen.resp # 0
             /\ Responses[gen.resp].status \in 200..299
             /\ ~gen.aborted)
                => /\ Len(ChunksOf(p, g)) <= Len(fromData)
                   /\ ChunksOf(p, g) = SubSeq(fromData, 1, Len(ChunksOf(p, g)))
                   /\ Posted(events[p], g, {"done"}) # << >> => ChunksOf(p, g) = fromData
                   /\ \A i \in DOMAIN EventsOf(p, g) :
                         EventsOf(p, g)[i].type = "error"
                            => EventsOf(p, g)[i].error \in {NetworkError, NoStreamError}

\* A run read to its end a body with an event: line and with a line that starts
\* with "data:" and no space and holds a delta, and was posted done and no chunk
\* of that line.
C31_Witness ==
    \E p \in Ports : \E g \in DOMAIN gens[p] :
        LET gen == gens[p][g]
        IN  /\ gen.resp # 0
            /\ \E i \in DOMAIN CompleteLines[gen.resp] :
                  /\ startsWith(CompleteLines[gen.resp][i], Chars("data:{"))
                  /\ JSON_parse(slice(CompleteLines[gen.resp][i], 5)).ok
            /\ \E i \in DOMAIN CompleteLines[gen.resp] :
                  startsWith(CompleteLines[gen.resp][i], Chars("event:"))
            /\ ~gen.aborted
            /\ Posted(events[p], g, {"done"}) # << >>
            /\ \A i \in DOMAIN ChunksOf(p, g) :
                  ChunksOf(p, g)[i].content # JStr(Chars("n"))

RECURSIVE Concatenated(_)
\* The content fields of the chunk events among some events, concatenated in
\* the order of arrival.
Concatenated(received) ==
    IF received = << >> THEN << >>
    ELSE (IF Head(received).type = "chunk" THEN Head(received).content ELSE << >>)
             \o Concatenated(Tail(received))

\* The listener of port p handles the event of this type in this step.
Handles(p, type) ==
    /\ Len(uiPorts'[p].received) = Len(uiPorts[p].received) + 1
    /\ uiPorts'[p].received[Len(uiPorts'[p].received)].type = type

\* C32: whenever the listener of SummaryDisplay handles the done event of a
\* generation, the text it writes to the cache is the concatenation of the
\* content of all chunk events it has handled for that generation, however the
\* messages, the renders and the contentRef effect interleave.
C32_CacheHoldsAllChunks ==
    [][\A p \in 1..Len(uiPorts) :
           uiPorts[p].owner = "summary" /\ Handles(p, "done")
               => cache'.summary = Concatenated(uiPorts'[p].received)]_vars

\* The loading flag of the component that owns a port: as last rendered, which is
\* what the Button shows, and as the queued updates will leave it.
LoadingRendered(owner) ==
    IF owner = "summary" THEN summary.aiLoading ELSE mindmap.mindmapLoading
LoadingQueued(owner) ==
    IF owner = "summary" THEN ApplyUpdates(summary, summary.updates).aiLoading
    ELSE ApplyUpdates(mindmap, mindmap.updates).mindmapLoading

\* Port p has received its done or error event.
Terminated(port) ==
    \E i \in 1..Len(port.received) : port.received[i].type \in {"done", "error"}

\* Port p carries a generation that has started and has received no done or
\* error event yet.
Generating(port) == port.sent # << >> /\ ~Terminated(port)

\* While a generation runs its component's flag is true, a port that has
\* received done or error is disconnected (MindmapDisplay: once saveCacheData has
\* settled), no port carries two start messages and SummaryDisplay has at most
\* one connected port.
LoadingWhileGenerating ==
    /\ \A p \in 1..Len(uiPorts) :
           /\ Generating(uiPorts[p]) =>
                  LoadingRendered(uiPorts[p].owner) /\ LoadingQueued(uiPorts[p].owner)
           /\ Terminated(uiPorts[p]) =>
                  ~uiPorts[p].connected \/ uiPorts[p].saving # Null
           /\ Len(uiPorts[p].sent) <= 1
    /\ Cardinality({p \in 1..Len(uiPorts) :
                        uiPorts[p].owner = "summary" /\ uiPorts[p].connected}) <= 1

\* A step that clears a flag is one that disconnects a port of that component on
\* which done or error has been received by then; a step that opens a port is
\* taken with the component's flag false and none of its generations running.
LoadingSteps ==
    /\ \A owner \in {"summary", "mindmap"} :
           LoadingQueued(owner) /\ ~LoadingQueued(owner)' =>
               \E p \in 1..Len(uiPorts) :
                   /\ uiPorts[p].owner = owner
                   /\ uiPorts[p].connected /\ ~uiPorts'[p].connected
                   /\ Terminated(uiPorts'[p])
    /\ Len(uiPorts') > Len(uiPorts) =>
           LET owner == uiPorts'[Len(uiPorts')].owner
           IN  /\ ~LoadingRendered(owner) /\ ~LoadingQueued(owner)
               /\ \A p \in 1..Len(uiPorts) :
                      uiPorts[p].owner = owner => ~Generating(uiPorts[p])

\* C33: the loading flag of SummaryDisplay and of MindmapDisplay is true from
\* the start of a generation until its done or error event is received and is
\* cleared by nothing else, no generation starts while it is true, the port is
\* disconnected on done or error, each port carries at most one start message
\* and SummaryDisplay has at most one open port.
C33_LoadingGuardsGeneration == [](LoadingWhileGenerating) /\ [][LoadingSteps]_vars

\* C33 witness: SummaryDisplay runs its second generation on a second port, the
\* first port having received done and been disconnected.
C33_Witness ==
    /\ Len(uiPorts) = 2
    /\ uiPorts[1].owner = "summary" /\ uiPorts[2].owner = "summary"
    /\ Terminated(uiPorts[1]) /\ ~uiPorts[1].connected
    /\ Generating(uiPorts[2]) /\ uiPorts[2].connected
    /\ uiPorts[2].received # << >>
    /\ summary.aiLoading

\* The mindmap of all the chunks a port has received.
MindmapOf(port) == plaintextToMindElixir(cleanMindmapResponse(Concatenated(port.received)))

\* The listener's text is the concatenation of the content of the chunks it has
\* handled, whichever of them it rendered.
NothingSkipped ==
    \A p \in 1..Len(uiPorts) :
        uiPorts[p].owner = "mindmap" =>
            /\ uiPorts[p].accumulatedPlaintext = Concatenated(uiPorts[p].received)
            /\ uiPorts[p].saving # Null => uiPorts[p].saving = MindmapOf(uiPorts[p])

\* What the done event renders and what is then cached is the mindmap of all
\* the chunks.
FinalFromAll ==
    /\ \A p \in 1..Len(uiPorts) :
           uiPorts[p].owner = "mindmap" /\ Handles(p, "done") /\ uiPorts'[p].connected
               => /\ mindmap'.updates # << >>
                  /\ mindmap'.updates[Len(mindmap'.updates)]
                         = Update("setMindmapData", MindmapOf(uiPorts'[p]))
    /\ cache'.mindmap # cache.mindmap
           => \E p \in 1..Len(uiPorts) :
                  /\ uiPorts[p].owner = "mindmap"
                  /\ uiPorts[p].connected /\ ~uiPorts'[p].connected
                  /\ uiPorts[p].received[Len(uiPorts[p].received)].type = "done"
                  /\ cache'.mindmap = MindmapOf(uiPorts[p])

\* C34: in MindmapDisplay the throttle loses no content: the mindmap rendered
\* and cached on the done event is computed from the concatenation, in arrival
\* order, of the content of all chunk events received, whichever of them were
\* skipped for rendering.
C34_ThrottleLosesNothing == [](NothingSkipped) /\ [][FinalFromAll]_vars

\* C34 witness: the first chunk was rendered, the second arrived within the
\* throttle interval and was not, and the mindmap of both is in the cache; no
\* render of the component has taken the queued updates yet.
C34_Witness ==
    \E p \in 1..Len(uiPorts) :
        /\ uiPorts[p].owner = "mindmap"
        /\ Len(uiPorts[p].received) = 3
        /\ uiPorts[p].received[1].content = Fence \o Chars("md\n- a")
        /\ uiPorts[p].received[2].content = Chars("\n- b") \o Fence
        /\ Len(mindmap.updates) = 7
        /\ mindmap.updates[2] = Update("setMindmapData", << "root" >> \o Chars("- a"))
        /\ mindmap.updates[3].setter = "setReasoning"
        /\ mindmap.updates[4].setter = "setReasoning"
        /\ mindmap.updates[5] = Update("setMindmapData", MindmapOf(uiPorts[p]))
        /\ cache.mindmap = << "root" >> \o Chars("- a\n- b")

RECURSIVE LatestPot(_)
\* The URL of the last request with a pot parameter to www.youtube.com
\* /api/timedtext in a log, null when there is none or when a
\* clearCapturedSubtitleUrl message follows it.
LatestPot(log) ==
    IF log = << >> THEN Null
    ELSE LET last == log[Len(log)]
         IN  IF last.event = "request" /\ last.data \in PotUrls THEN last.data
             ELSE IF last.event = "clearCapturedSubtitleUrl" THEN Null
             ELSE LatestPot(SubSeq(log, 1, Len(log) - 1))

\* C35: the captured subtitle URL is a single slot: getCapturedSubtitleUrl is
\* answered with the URL of the most recent request to www.youtube.com
\* /api/timedtext that carried a pot parameter, requests without pot or to
\* another host or path leave it unchanged, and after
\* clearCapturedSubtitleUrl the answer is null until the next such request.
C35_SingleSlot ==
    /\ capturedSubtitleUrl = LatestPot(replies)
    /\ \A i \in 1..Len(replies) :
           replies[i].event = "getCapturedSubtitleUrl" =>
               replies[i].data = LatestPot(SubSeq(replies, 1, i - 1))

\* C35 witness: after a request with pot, a request to the same path with a
\* parameter named spot is observed, and getCapturedSubtitleUrl is answered
\* with the first.
C35_Witness ==
    /\ Len(replies) = 3
    /\ replies[1] = Observed("request", TimedText \o Chars("?pot=y&v=b"))
    /\ replies[2] = Observed("request", TimedText \o Chars("?spot=x&v=pot"))
    /\ replies[3] = Observed("getCapturedSubtitleUrl", TimedText \o Chars("?pot=y&v=b"))

====
